---------------------------- MODULE Spec2Model ----------------------------
(***************************************************************************)
(* State-machine model of the identity registry of the facial-recognition  *)
(* API (app/services/face_service.py) and of the part of the recognition   *)
(* service that reads it (app/services/recognition_service.py).            *)
(*                                                                         *)
(* The registry is two module globals, known_face_encodings and            *)
(* known_face_names, each bound to a Python list object.  Request handlers *)
(* run on concurrent threads (Flask's threaded server); a step of the      *)
(* model is one statement of a handler that touches shared state (the      *)
(* globals, the list objects, the store directory).  List objects live in  *)
(* `heap`; a reference is an address in it, so that a reader holding a     *)
(* reference sees later appends to the same object, and does not see a     *)
(* list that replaced it.  An object that nothing refers to any more is    *)
(* freed, and its address is used again (CPython's reference counting).    *)
(***************************************************************************)
EXTENDS Naturals, Integers, Sequences, FiniteSets, TLC

(***************************************************************************)
(* Bounds of the model.                                                    *)
(***************************************************************************)
NumThreads == 2      \* request threads of the server
MaxCalls == 3        \* requests handled in one run
MaxFaces == 2        \* faces detected in one image submitted to recognize

Threads == 1..NumThreads

(***************************************************************************)
(* Inputs.  A label is the `name` form field; an upload is a file name and *)
(* its bytes.  Image bytes are abstracted to what the face_recognition     *)
(* library makes of them: "f1" and "f2" are two decodable images with one  *)
(* face each, "nf" decodes and holds no face, "bad" does not decode.       *)
(* "partial" is a file that has been opened for writing and not yet        *)
(* written; "none" is the absence of the file.                             *)
(***************************************************************************)
Names == {"", "alice", "a b", "a_b"}
UploadNames == {"", "x.jpg", "x.txt"}
Contents == {"f1", "f2", "nf", "bad"}
Images == Contents \cup {"partial"}
NoFile == "none"

\* werkzeug.utils.secure_filename on the labels of Names: white space
\* becomes "_", everything else here is kept.
secure_filename(name) ==
    IF name = "a b" THEN "a_b" ELSE name

\* A file of the store directory: f"{stem}.jpg" is [stem |-> stem, ext |-> "jpg"].
JpgFile(stem) == [stem |-> stem, ext |-> "jpg"]
FileNames == { JpgFile(secure_filename(n)) : n \in Names \ {""} }

ALLOWED_EXTENSIONS == {"png", "jpg", "jpeg"}

\* allowed_file on an upload's file name.
UploadExt(u) ==
    IF u = "x.jpg" THEN "jpg" ELSE IF u = "x.txt" THEN "txt" ELSE ""

allowed_upload(u) == UploadExt(u) \in ALLOWED_EXTENSIONS

\* allowed_file on a file of the store.
allowed_file(f) == f.ext \in ALLOWED_EXTENSIONS

\* os.path.splitext(filename)[0]: a leading dot does not begin an extension.
splitext0(f) == IF f.stem = "" THEN "." \o f.ext ELSE f.stem

\* face_recognition.load_image_file raises on a missing, undecodable or
\* half-written file.
Readable(img) == img \in {"f1", "f2", "nf"}

\* face_recognition.face_encodings(image): one descriptor per face found.
face_encodings(img) ==
    IF img = "f1" THEN <<"e1">>
    ELSE IF img = "f2" THEN <<"e2">>
    ELSE << >>

(***************************************************************************)
(* Matching.  Distances and confidences are in hundredths.                 *)
(***************************************************************************)
Descriptors == {"e1", "e2"}
Probes == {"e1", "q"}
FACE_RECOGNITION_THRESHOLD == 60

\* face_recognition.face_distance between a probe and a known descriptor.
face_distance(p, e) ==
    IF p = e THEN 0
    ELSE IF p = "q" THEN 41
    ELSE IF p = "r" THEN 40
    ELSE IF p = "T" THEN 1130
    ELSE 70

\* The last index of the least distance.
last_argmin(ds) ==
    CHOOSE i \in 1..Len(ds) :
        /\ \A j \in 1..Len(ds) : ds[i] <= ds[j]
        /\ \A j \in (i + 1)..Len(ds) : ds[j] > ds[i]

\* np.argmin: the first index of the least distance.
argmin(ds) ==
    CHOOSE i \in 1..Len(ds) :
        /\ \A j \in 1..Len(ds) : ds[i] <= ds[j]
        /\ \A j \in 1..(i - 1) : ds[j] > ds[i]

(***************************************************************************)
(* State.                                                                  *)
(***************************************************************************)
VARIABLES
    store,                  \* the KNOWN_FACES_FOLDER directory: file -> bytes
    heap,                   \* the list objects, by address
    known_face_encodings,   \* global: reference to a list of descriptors
    known_face_names,       \* global: reference to a list of labels
    got_first_request,      \* Flask: before_app_first_request has run
    threaded,               \* the server handles requests concurrently
    pc,                     \* per thread: the statement it is at
    loc,                    \* per thread: the locals of its handler
    nCalls,                 \* requests taken so far
    entry                   \* history: the arguments of the running call
                            \* that changes the registry, and the store and
                            \* registry it found; kept while no other such
                            \* call runs
VARIABLES
    rq,                     \* recognize_faces: the locals of one call
    cnn,                    \* a CNNFaceModel object: its attributes
    disk,                   \* the models directory
    tr                      \* CNNFaceModel.train: the locals of one call
VARIABLES
    call                    \* one call of a function on its own: its name,
                            \* its arguments and what it returned
VARIABLES
    uploads,                \* the UPLOAD_FOLDER directory: file -> bytes
    rec                     \* per thread: the locals of recognize_faces
                            \* that concern the files it writes and reads

vars == <<store, heap, known_face_encodings, known_face_names,
          got_first_request, threaded, pc, loc, nCalls, entry,
          rq, cnn, disk, tr, call, uploads, rec>>

\* What the handlers of face_service.py never write.
Pipeline == <<rq, cnn, disk, tr, call, uploads, rec>>

NoLocals ==
    [op |-> "", content |-> NoFile, fn |-> JpgFile(""),
     files |-> << >>, i |-> 0, enc |-> << >>,
     encs |-> 0, names |-> 0, probes |-> << >>, k |-> 0,
     best |-> 0, confidence |-> 0, results |-> << >>,
     status |-> 0, error |-> "", listed |-> << >>, count |-> 0]

NoEntry == [valid |-> FALSE, name |-> "", content |-> NoFile,
            store |-> [f \in FileNames |-> NoFile],
            encs |-> << >>, names |-> << >>, namesRef |-> 0]

\* cnn.py lines 19-21: the attributes __init__ sets; `model` None.
NoModel == [outputs |-> 0, classes |-> << >>, fitted |-> FALSE]
NoClassifier == [model |-> NoModel, face_labels |-> << >>, is_trained |-> FALSE]

\* cnn.py lines 28-29 and 166: face_recognition_model.h5, face_labels.pkl
\* and the train_data directory, none of them there yet.
NoDisk ==
    [model_file |-> [state |-> "absent", model |-> NoModel],
     labels_file |-> [state |-> "absent", labels |-> << >>],
     train_dir |-> {}]

NoTraining ==
    [at |-> "idle", caller |-> "", folder |-> [f \in FileNames |-> NoFile],
     files |-> << >>, i |-> 0, classes |-> << >>, result |-> FALSE,
     step |-> "", cnn |-> NoClassifier, disk |-> NoDisk, images |-> {}]

NoRequest ==
    [at |-> "idle", method |-> "", use_cnn |-> FALSE, strategy |-> "",
     detections |-> << >>, boxes |-> 0, encs |-> 0, names |-> 0,
     probes |-> << >>, k |-> 0, compared |-> {}, results |-> << >>,
     status |-> 0, error |-> "", cnn_model |-> NoClassifier,
     trainer |-> NoTraining, trained |-> NoClassifier,
     face_locations |-> << >>, located |-> << >>]

NoCall == [op |-> "none", arg |-> << >>, out |-> << >>, done |-> FALSE]

\* The names of the files submitted to recognize, and the files of the
\* upload directory: an upload under its name, a result under
\* f"result_{filename}" (recognition_service.py line 133).
SubmittedNames == {"a.jpg", "b.jpg"}
result_name(filename) == "result_" \o filename
UploadFiles == SubmittedNames \cup { result_name(n) : n \in SubmittedNames }

NoUploads == [f \in UploadFiles |-> NoFile]

NoRecognize ==
    [at |-> "idle", filename |-> "", content |-> NoFile, save_result |-> FALSE,
     image |-> NoFile, faces |-> FALSE, output_filename |-> "",
     status |-> 0]

Quiescent == \A t \in Threads : pc[t] = "idle"
Alone(t) == \A u \in Threads \ {t} : pc[u] = "idle"

\* Thread t may take a request: the registry has been initialized, t is
\* the first free thread and, on a server that is not threaded, no request
\* is running.
MayBegin(t) ==
    /\ got_first_request
    /\ pc[t] = "idle"
    /\ \A u \in Threads : u < t => pc[u] # "idle"
    /\ threaded \/ Quiescent
    /\ nCalls < MaxCalls

\* The arguments of a call, and the store and the registry as it finds
\* them.
Snapshot(name, content) ==
    [valid |-> TRUE, name |-> name, content |-> content, store |-> store,
     encs |-> heap[known_face_encodings], names |-> heap[known_face_names],
     namesRef |-> known_face_names]

\* The calls that change the store or the registry.
Mutating(t) == loc[t].op \in {"initialize", "register_face", "delete_face"}

\* entry after thread t begins such a call.
EntryAt(t, name, content) ==
    IF \A u \in Threads \ {t} : ~Mutating(u)
    THEN Snapshot(name, content)
    ELSE NoEntry

Range(s) == { s[i] : i \in 1..Len(s) }

\* Addresses: the two lists of the registry and the two a reader may hold.
Addresses == 1..(2 * NumThreads + 2)

\* The references held in the locals of the handlers, but for thread t's.
HeldBut(t) ==
    UNION { {loc[u].encs, loc[u].names} : u \in Threads \ {t} } \ {0}

Held == UNION { {loc[u].encs, loc[u].names} : u \in Threads } \ {0}

\* The address of a newly created list: one that nothing refers to.
Fresh ==
    LET live == {known_face_encodings, known_face_names} \cup Held
    IN  CHOOSE a \in Addresses :
            /\ a \notin live
            /\ \A b \in Addresses : b < a => b \in live

\* The heap once the references `dropped` are gone and `kept` remain.
Release(h, dropped, kept) ==
    [a \in Addresses |-> IF a \in dropped \ kept THEN << >> ELSE h[a]]

\* os.listdir: the files present, in arbitrary order.
Listings ==
    LET present == { f \in FileNames : store[f] # NoFile }
        n == Cardinality(present)
    IN  { s \in [1..n -> present] : \A i, j \in 1..n : i # j => s[i] # s[j] }

InitStores ==
    { [f \in FileNames |-> NoFile],
      [f \in FileNames |-> IF f = JpgFile("alice") THEN "f1" ELSE NoFile] }

\* face_service.py lines 8-9: the two globals are bound to two empty lists.
Start ==
    /\ store \in InitStores
    /\ heap = [a \in Addresses |-> << >>]
    /\ known_face_encodings = 1
    /\ known_face_names = 2
    /\ got_first_request = FALSE
    /\ pc = [t \in Threads |-> "idle"]
    /\ loc = [t \in Threads |-> NoLocals]
    /\ nCalls = 0
    /\ entry = NoEntry
    /\ rq = NoRequest
    /\ cnn = NoClassifier
    /\ disk = NoDisk
    /\ tr = NoTraining
    /\ call = NoCall
    /\ uploads = NoUploads
    /\ rec = [t \in Threads |-> NoRecognize]

\* app.py line 18: app.run serves each request on a thread of its own.
Init == Start /\ threaded = TRUE

\* The same application behind a server that handles one request at a time.
InitSeq == Start /\ threaded = FALSE

Goto(t, label) == pc' = [pc EXCEPT ![t] = label]
SetLoc(t, r) == loc' = [loc EXCEPT ![t] = r]

Registry == <<heap, known_face_encodings, known_face_names>>

(***************************************************************************)
(* load_known_faces, lines 11-44.  It runs inside initialize,              *)
(* register_face and delete_face; loc[t].op says which.                    *)
(***************************************************************************)

\* line 16: known_face_encodings = []
ResetEncodings(t) ==
    /\ heap' = Release(heap, {known_face_encodings}, Held)
    /\ known_face_encodings' = Fresh
    /\ UNCHANGED known_face_names

\* A reload that keeps the labels of the previous load.
KeepNames(t) ==
    UNCHANGED <<heap, known_face_names, known_face_encodings>>

\* line 17: known_face_names = []
ResetNames(t) ==
    /\ heap' = Release(heap, {known_face_names}, Held)
    /\ known_face_names' = Fresh
    /\ UNCHANGED known_face_encodings

Load16(t) ==
    /\ pc[t] = "load16"
    /\ ResetEncodings(t)
    /\ Goto(t, "load17")
    /\ UNCHANGED <<store, got_first_request, threaded, Pipeline, loc, nCalls, entry>>

Load17(t) ==
    /\ pc[t] = "load17"
    /\ ResetNames(t)
    /\ Goto(t, "load21")
    /\ UNCHANGED <<store, got_first_request, threaded, Pipeline, loc, nCalls, entry>>

\* line 21: os.listdir(known_faces_folder)
Load21(t) ==
    /\ pc[t] = "load21"
    /\ \E files \in Listings :
           SetLoc(t, [loc[t] EXCEPT !.files = files, !.i = 1])
    /\ Goto(t, "load22")
    /\ UNCHANGED <<store, Registry, got_first_request, threaded, Pipeline, nCalls, entry>>

\* What lines 22-42 find in file f: the descriptor to append, or nothing
\* (a file that is not allowed, cannot be loaded or holds no face).
\* A reload that takes every listed image for one with a face.
LoadAnyFile(f) ==
    IF allowed_file(f) THEN << "e1" >> ELSE << >>

LoadFile(f) ==
    IF allowed_file(f) /\ Readable(store[f])
    THEN face_encodings(store[f])
    ELSE << >>

\* The status the caller of load_known_faces returns once it is back:
\* register_face line 75, delete_face line 92; initialize returns nothing.
StatusAfterLoad(op) ==
    IF op = "initialize" THEN 0 ELSE 200

\* lines 21-33 and 39-44: the next file of the listing is loaded and its
\* faces encoded; at the end of the listing the count is returned and the
\* caller returns its result.
Load22(t) ==
    /\ pc[t] = "load22"
    /\ LET l == loc[t]
       IN  IF l.i > Len(l.files)
           THEN /\ SetLoc(t, [l EXCEPT !.i = 0,
                                       !.count = Len(heap[known_face_names]),
                                       !.status = StatusAfterLoad(l.op)])
                /\ Goto(t, "return")
           ELSE LET enc == LoadFile(l.files[l.i])
                IN  IF enc # << >>
                    THEN /\ SetLoc(t, [l EXCEPT !.enc = enc])
                         /\ Goto(t, "load36")
                    ELSE /\ SetLoc(t, [l EXCEPT !.i = l.i + 1])
                         /\ Goto(t, "load22")
    /\ UNCHANGED <<store, Registry, got_first_request, threaded, Pipeline, nCalls, entry>>

\* line 36: known_face_encodings.append(encoding)
Load36(t) ==
    /\ pc[t] = "load36"
    /\ heap' = [heap EXCEPT ![known_face_encodings] =
                    Append(@, loc[t].enc[1])]
    /\ Goto(t, "load37")
    /\ UNCHANGED <<store, known_face_encodings, known_face_names,
                   got_first_request, threaded, Pipeline, loc, nCalls, entry>>

\* The label line 37 appends for file f (line 24).
LabelOf(f) == splitext0(f)

\* A reload that puts each label in front of those loaded so far.
PrependName(names, name) == << name >> \o names

\* list.append of line 37
AppendName(names, name) == Append(names, name)

\* line 37: known_face_names.append(name)
Load37(t) ==
    /\ pc[t] = "load37"
    /\ heap' = [heap EXCEPT ![known_face_names] =
                    AppendName(@, LabelOf(loc[t].files[loc[t].i]))]
    /\ SetLoc(t, [loc[t] EXCEPT !.enc = << >>, !.i = @ + 1])
    /\ Goto(t, "load22")
    /\ UNCHANGED <<store, known_face_encodings, known_face_names,
                   got_first_request, threaded, Pipeline, nCalls, entry>>

(***************************************************************************)
(* initialize, face_routes.py lines 8-13: Flask runs it once, before the   *)
(* first request is handled, and holds every other request until it is     *)
(* done.                                                                   *)
(***************************************************************************)
Initialize(t) ==
    /\ ~got_first_request
    /\ Quiescent
    /\ t = 1
    /\ SetLoc(t, [NoLocals EXCEPT !.op = "initialize"])
    /\ Goto(t, "load16")
    /\ entry' = EntryAt(t, "", NoFile)
    /\ UNCHANGED <<store, Registry, got_first_request, threaded, Pipeline, nCalls>>

(***************************************************************************)
(* register_face(file, name), lines 46-79.                                 *)
(***************************************************************************)

\* lines 48-52: the checks made before anything is written.
RegisterRejects(upload, name) ==
    \/ upload = ""
    \/ name = ""
    \/ ~allowed_upload(upload)

\* lines 46-58
RegisterFace(t) ==
    /\ MayBegin(t)
    /\ \E upload \in UploadNames, name \in Names, content \in Contents :
           LET l == [NoLocals EXCEPT !.op = "register_face"]
           IN  /\ IF RegisterRejects(upload, name)
                  THEN /\ SetLoc(t, [l EXCEPT !.status = 400,
                                                 !.error = "rejected"])
                       /\ Goto(t, "return")
                  ELSE /\ SetLoc(t, [l EXCEPT !.content = content,
                                       !.fn = JpgFile(secure_filename(name))])
                       /\ Goto(t, "save_open")
               /\ entry' = EntryAt(t, name, content)
    /\ nCalls' = nCalls + 1
    /\ UNCHANGED <<store, Registry, got_first_request, threaded, Pipeline>>

\* line 61, file.save(filepath): the destination is opened for writing,
\* which creates or truncates it ...
SaveOpen(t) ==
    /\ pc[t] = "save_open"
    /\ store' = [store EXCEPT ![loc[t].fn] = "partial"]
    /\ Goto(t, "save_write")
    /\ UNCHANGED <<Registry, got_first_request, threaded, Pipeline, loc, nCalls, entry>>

\* ... and the upload's bytes are copied into it.  When the name has been
\* removed meanwhile, the bytes go to a file that no name refers to.
SaveWrite(t) ==
    /\ pc[t] = "save_write"
    /\ store' = IF store[loc[t].fn] = NoFile THEN store
                ELSE [store EXCEPT ![loc[t].fn] = loc[t].content]
    /\ SetLoc(t, [loc[t] EXCEPT !.content = NoFile])
    /\ Goto(t, "reg64")
    /\ UNCHANGED <<Registry, got_first_request, threaded, Pipeline, nCalls, entry>>

\* lines 64-67 and 77-79: the saved file is read back and its faces are
\* encoded.  A file that cannot be loaded raises; the handler at line 77
\* returns 500.
Register64(t) ==
    /\ pc[t] = "reg64"
    /\ LET img == store[loc[t].fn]
       IN  IF ~Readable(img)
           THEN /\ SetLoc(t, [loc[t] EXCEPT !.status = 500,
                                               !.error = "exception"])
                /\ Goto(t, "return")
           ELSE IF face_encodings(img) = << >>
           THEN /\ UNCHANGED loc
                /\ Goto(t, "reg69")
           ELSE /\ SetLoc(t, [loc[t] EXCEPT !.fn = JpgFile("")])
                /\ Goto(t, "load16")
    /\ UNCHANGED <<store, Registry, got_first_request, threaded, Pipeline, nCalls, entry>>

\* lines 69-70: os.remove(filepath), which raises when the file is gone.
Register69(t) ==
    /\ pc[t] = "reg69"
    /\ IF store[loc[t].fn] = NoFile
       THEN /\ SetLoc(t, [loc[t] EXCEPT !.status = 500,
                                           !.error = "exception"])
            /\ UNCHANGED store
       ELSE /\ SetLoc(t, [loc[t] EXCEPT !.status = 400,
                                           !.error = "no face"])
            /\ store' = [store EXCEPT ![loc[t].fn] = NoFile]
    /\ Goto(t, "return")
    /\ UNCHANGED <<Registry, got_first_request, threaded, Pipeline, nCalls, entry>>

(***************************************************************************)
(* delete_face(name), lines 81-97.                                         *)
(***************************************************************************)

\* lines 83-87 and 96-97
DeleteFace(t) ==
    /\ MayBegin(t)
    /\ \E name \in Names :
           LET fn == JpgFile(secure_filename(name))
               l == [NoLocals EXCEPT !.op = "delete_face", !.fn = fn]
           IN  /\ IF fn \in FileNames /\ store[fn] # NoFile
                  THEN /\ SetLoc(t, l)
                       /\ Goto(t, "del89")
                  ELSE /\ SetLoc(t, [l EXCEPT !.status = 404,
                                                 !.error = "not found"])
                       /\ Goto(t, "return")
               /\ entry' = EntryAt(t, name, NoFile)
    /\ nCalls' = nCalls + 1
    /\ UNCHANGED <<store, Registry, got_first_request, threaded, Pipeline>>

\* lines 89 and 93-95: os.remove(filepath); the handler at line 93 returns
\* 500 when it raises.
Delete89(t) ==
    /\ pc[t] = "del89"
    /\ IF store[loc[t].fn] = NoFile
       THEN /\ SetLoc(t, [loc[t] EXCEPT !.status = 500,
                                           !.error = "exception"])
            /\ Goto(t, "return")
            /\ UNCHANGED store
       ELSE /\ store' = [store EXCEPT ![loc[t].fn] = NoFile]
            /\ Goto(t, "load16")
            /\ SetLoc(t, [loc[t] EXCEPT !.fn = JpgFile("")])
    /\ UNCHANGED <<Registry, got_first_request, threaded, Pipeline, nCalls, entry>>

(***************************************************************************)
(* list_faces, lines 99-105.                                               *)
(***************************************************************************)
ListFaces(t) ==
    /\ MayBegin(t)
    /\ SetLoc(t, [NoLocals EXCEPT !.op = "list_faces",
                                  !.listed = heap[known_face_names],
                                  !.count = Len(heap[known_face_names]),
                                  !.status = 200])
    /\ Goto(t, "return")
    /\ nCalls' = nCalls + 1
    /\ UNCHANGED <<store, Registry, got_first_request, threaded, Pipeline, entry>>

(***************************************************************************)
(* recognize_faces, recognition_service.py lines 11-153: the part that     *)
(* reads the registry.  The image submitted is abstracted to the           *)
(* descriptors of the faces detected in it.                                *)
(***************************************************************************)
ProbeLists == UNION { [1..n -> Probes] : n \in 0..MaxFaces }

\* lines 24-56
RecognizeFaces(t) ==
    /\ MayBegin(t)
    /\ \E probes \in ProbeLists :
           SetLoc(t, [NoLocals EXCEPT !.op = "recognize_faces",
                                      !.probes = probes])
    /\ Goto(t, "get_enc")
    /\ nCalls' = nCalls + 1
    /\ UNCHANGED <<store, Registry, got_first_request, threaded, Pipeline, entry>>

\* line 59 calls get_known_faces (face_service.py lines 107-109), which
\* reads the global known_face_encodings ...
GetEncodings(t) ==
    /\ pc[t] = "get_enc"
    /\ SetLoc(t, [loc[t] EXCEPT !.encs = known_face_encodings])
    /\ Goto(t, "get_names")
    /\ UNCHANGED <<store, Registry, got_first_request, threaded, Pipeline, nCalls, entry>>

\* ... and then the global known_face_names.
GetNames(t) ==
    /\ pc[t] = "get_names"
    /\ SetLoc(t, [loc[t] EXCEPT !.names = known_face_names, !.k = 1])
    /\ Goto(t, "match94")
    /\ UNCHANGED <<store, Registry, got_first_request, threaded, Pipeline, nCalls, entry>>

\* line 96: the distance of the probe to every known descriptor.
face_distances(known, p) ==
    [i \in 1..Len(known) |-> face_distance(p, known[i])]

\* lines 78-100: the next face; with a non-empty list of known descriptors
\* its nearest one and the confidence.  After the last face the response
\* is returned (lines 137-149).
Match94(t) ==
    /\ pc[t] = "match94"
    /\ LET l == loc[t]
           known == heap[l.encs]
       IN  IF l.k > Len(l.probes)
           THEN /\ SetLoc(t, [l EXCEPT !.status = 200, !.k = 0])
                /\ Goto(t, "return")
           ELSE IF known = << >>
           THEN /\ SetLoc(t, [l EXCEPT !.k = l.k + 1,
                       !.results = Append(@, [name |-> "Inconnu",
                                              confidence |-> 0])])
                /\ Goto(t, "match94")
           ELSE LET ds == face_distances(known, l.probes[l.k])
                    best == argmin(ds)
                IN  /\ SetLoc(t, [l EXCEPT !.best = best,
                                           !.confidence = 100 - ds[best]])
                    /\ Goto(t, "match104")
    /\ UNCHANGED <<store, Registry, got_first_request, threaded, Pipeline, nCalls, entry>>

\* lines 103-119 and 151-153: the label of the nearest descriptor when the
\* confidence exceeds the threshold.  An index past the end of the list of
\* labels raises; the handler at line 151 returns 500.
Match104(t) ==
    /\ pc[t] = "match104"
    /\ LET l == loc[t]
           labels == heap[l.names]
       IN  IF l.confidence > FACE_RECOGNITION_THRESHOLD
           THEN IF l.best > Len(labels)
                THEN /\ SetLoc(t, [l EXCEPT !.status = 500,
                                            !.error = "exception", !.k = 0,
                                            !.best = 0, !.confidence = 0,
                                            !.results = << >>])
                     /\ Goto(t, "return")
                ELSE /\ SetLoc(t, [l EXCEPT !.k = l.k + 1, !.best = 0,
                            !.confidence = 0,
                            !.results = Append(@, [name |-> labels[l.best],
                                         confidence |-> l.confidence])])
                     /\ Goto(t, "match94")
           ELSE /\ SetLoc(t, [l EXCEPT !.k = l.k + 1, !.best = 0,
                       !.confidence = 0,
                       !.results = Append(@, [name |-> "Inconnu",
                                    confidence |-> l.confidence])])
                /\ Goto(t, "match94")
    /\ UNCHANGED <<store, Registry, got_first_request, threaded, Pipeline, nCalls, entry>>

(***************************************************************************)
(* The handler returns: its locals go, and the references they held.       *)
(***************************************************************************)
Return(t) ==
    /\ pc[t] = "return"
    /\ got_first_request' = (got_first_request \/ loc[t].op = "initialize")
    /\ SetLoc(t, NoLocals)
    /\ Goto(t, "idle")
    /\ heap' = Release(heap, {loc[t].encs, loc[t].names} \ {0},
                       HeldBut(t) \cup {known_face_encodings, known_face_names})
    /\ entry' = IF Mutating(t) THEN NoEntry ELSE entry
    /\ UNCHANGED <<store, known_face_encodings, known_face_names,
                   threaded, Pipeline, nCalls>>

Step(t) ==
    \/ Initialize(t)
    \/ RegisterFace(t)
    \/ SaveOpen(t)
    \/ SaveWrite(t)
    \/ Register64(t)
    \/ Register69(t)
    \/ DeleteFace(t)
    \/ Delete89(t)
    \/ Load16(t)
    \/ Load17(t)
    \/ Load21(t)
    \/ Load22(t)
    \/ Load36(t)
    \/ Load37(t)
    \/ ListFaces(t)
    \/ RecognizeFaces(t)
    \/ GetEncodings(t)
    \/ GetNames(t)
    \/ Match94(t)
    \/ Match104(t)
    \/ Return(t)

\* Requests are handled on concurrent threads.
Next == \E t \in Threads : Step(t)

Spec == Init /\ [][Next]_vars

\* One request at a time: a call begins only when no other is running.
SpecSeq == InitSeq /\ [][Next]_vars

(***************************************************************************)
(* Vocabulary of the properties.                                           *)
(***************************************************************************)
LoadPcs == {"load16", "load17", "load21", "load22", "load36", "load37"}
MatchPcs == {"match94", "match104"}

\* The labels of the stored images in which a face is detected: what a
\* reload of the store as it is now produces.
DetectedLabels ==
    { LabelOf(f) : f \in { g \in FileNames : LoadFile(g) # << >> } }

NoDuplicates(s) == \A i, j \in 1..Len(s) : i # j => s[i] # s[j]

\* The registry as a reader finds it now.
CurrentNames == heap[known_face_names]
CurrentEncodings == heap[known_face_encodings]

\* Thread r reads the list of labels in this step: list_faces, or the
\* second read of get_known_faces.
ReadsNames(r) ==
    \/ pc[r] = "idle" /\ pc'[r] = "return" /\ loc'[r].op = "list_faces"
    \/ pc[r] = "get_names" /\ pc'[r] = "match94"

\* A reload is in progress.
Reloading == \E w \in Threads : pc[w] \in LoadPcs

(***************************************************************************)
(* C1.  While one registry mutation is in progress, a reader of the list   *)
(* of labels finds either the complete set of identities that existed      *)
(* before the mutation or the complete set the mutation produces, never    *)
(* an empty or partly rebuilt one.                                         *)
(***************************************************************************)
C1_ReaderSeesOldOrNewSet ==
    [][\A r \in Threads :
          (ReadsNames(r) /\ entry.valid /\ Reloading)
              => Range(CurrentNames) \in {Range(entry.names), DetectedLabels}
      ]_vars

(***************************************************************************)
(* C2.  Within one recognize request the pair of lists obtained from the   *)
(* registry does not change while faces remain to be matched, whatever     *)
(* other requests do meanwhile.                                            *)
(***************************************************************************)
C2_SnapshotFixedDuringRequest ==
    [][\A r \in Threads :
          (/\ pc[r] \in MatchPcs
           /\ pc'[r] \in MatchPcs
           /\ loc[r].k <= Len(loc[r].probes))
              => /\ heap'[loc[r].encs] = heap[loc[r].encs]
                 /\ heap'[loc[r].names] = heap[loc[r].names]
      ]_vars

(***************************************************************************)
(* C3.  The registry carries a generation that advances with every         *)
(* published snapshot, and a snapshot returned while add(X) runs never     *)
(* has the new generation without X, nor X with the old generation.  The   *)
(* code keeps no counter; the one thing that tells a published list from   *)
(* the one before it is the identity of the list object, which is taken    *)
(* here as the generation of the snapshot that get_known_faces returns.    *)
(***************************************************************************)
C3_GenerationMatchesContent ==
    [][\A r \in Threads :
          (/\ pc[r] = "get_names" /\ pc'[r] = "match94"
           /\ entry.valid
           /\ \E w \in Threads : loc[w].op = "register_face"
           /\ secure_filename(entry.name) \notin Range(entry.names))
              => LET X == secure_filename(entry.name)
                     advanced == loc'[r].names # entry.namesRef
                     hasX == X \in Range(heap[loc'[r].names])
                 IN  advanced <=> hasX
      ]_vars

(***************************************************************************)
(* C4.  Mutations are serialized: once every call has returned, the        *)
(* registry is one that the calls produce in some serial order.  Run one   *)
(* after the other, the calls never leave a label twice in the registry,   *)
(* nor lists of different lengths.                                         *)
(***************************************************************************)
C4_MutationsSerialized ==
    (Quiescent /\ got_first_request)
        => /\ NoDuplicates(CurrentNames)
           /\ Len(CurrentEncodings) = Len(CurrentNames)

(***************************************************************************)
(* Vocabulary of the properties of single calls.  They are stated of a     *)
(* call that has reached its return, with `entry` holding its arguments    *)
(* and the store and registry it found.                                    *)
(***************************************************************************)
Returned(t, op) == pc[t] = "return" /\ loc[t].op = op /\ entry.valid

\* The file register_face and delete_face use for a label, and the label
\* a reload gives the identity loaded from that file.
FileOf(name) == JpgFile(secure_filename(name))
Listed(name) == LabelOf(FileOf(name))

Count(s, x) == Cardinality({ i \in 1..Len(s) : s[i] = x })

\* The descriptor the registry holds for a label that occurs once in it.
DescriptorOf(label) ==
    CurrentEncodings[CHOOSE i \in 1..Len(CurrentNames) :
                         CurrentNames[i] = label]

(***************************************************************************)
(* C5.  After completed calls the registry holds at most one identity per  *)
(* label, and an add for a label that is already enrolled replaces its     *)
(* identity and leaves the number of identities unchanged.                 *)
(***************************************************************************)
C5_OneIdentityPerLabel ==
    /\ (\A t \in Threads : pc[t] \in {"idle", "return"})
           => NoDuplicates(CurrentNames)
    /\ \A t \in Threads :
           (/\ Returned(t, "register_face")
            /\ loc[t].status = 200
            /\ Listed(entry.name) \in Range(entry.names))
               => /\ Len(CurrentNames) = Len(entry.names)
                  /\ Count(CurrentNames, Listed(entry.name)) = 1
                  /\ DescriptorOf(Listed(entry.name))
                         = face_encodings(entry.content)[1]

(***************************************************************************)
(* C6.  When add fails because no face is detected, the store holds        *)
(* exactly the images it held before the call.                             *)
(***************************************************************************)
C6_NoFaceLeavesStoreAsItWas ==
    \A t \in Threads :
        (Returned(t, "register_face") /\ loc[t].error = "no face")
            => store = entry.store

(***************************************************************************)
(* C7.  When add or remove ends with an error, the caller gets the error   *)
(* and both the published registry and the store are as before the call.   *)
(***************************************************************************)
C7_ErrorLeavesAllAsItWas ==
    \A t \in Threads :
        (/\ pc[t] = "return" /\ entry.valid
         /\ loc[t].op \in {"register_face", "delete_face"}
         /\ loc[t].status = 500)
            => /\ loc[t].error = "exception"
               /\ store = entry.store
               /\ CurrentNames = entry.names
               /\ CurrentEncodings = entry.encs

\* The image stored for a label; NoFile when there is none.
StoredIn(st, name) ==
    IF FileOf(name) \in FileNames THEN st[FileOf(name)] ELSE NoFile

\* The labels a reload produces from a directory listing, in its order.
RECURSIVE LabelsOfListing(_)
LabelsOfListing(fs) ==
    IF fs = << >> THEN << >>
    ELSE (IF LoadFile(Head(fs)) # << >>
          THEN << LabelOf(Head(fs)) >> ELSE << >>)
         \o LabelsOfListing(Tail(fs))

C9_ListInEnrollmentOrder ==
    \A t \in Threads :
        (/\ Returned(t, "register_face") /\ loc[t].status = 200
         /\ Listed(entry.name) \notin Range(entry.names)
         /\ Range(entry.names) \subseteq DetectedLabels)
            => CurrentNames = Append(entry.names, Listed(entry.name))

(***************************************************************************)
(* C9, amended.  The list is in the order in which the directory listing   *)
(* of the last reload returned the image files: after a call that          *)
(* reloaded, the labels are those of the listed files in which a face is   *)
(* detected, in the order of the listing, and list_faces returns them in   *)
(* that order.                                                             *)
(***************************************************************************)
C9_ListInDirectoryOrder ==
    \A t \in Threads :
        /\ (/\ pc[t] = "return" /\ Mutating(t) /\ entry.valid
            /\ loc[t].status \in {0, 200})
               => CurrentNames = LabelsOfListing(loc[t].files)
        /\ (pc[t] = "return" /\ loc[t].op = "list_faces" /\ ~threaded)
               => loc[t].listed = CurrentNames

\* A label enrolled for the first time is listed before one enrolled
\* earlier.
C9_Witness ==
    \E t \in Threads :
        /\ Returned(t, "register_face") /\ loc[t].status = 200
        /\ entry.names = << "alice" >>
        /\ CurrentNames = << "a_b", "alice" >>

(***************************************************************************)
(* C10.  remove(label) returns NotFound exactly when the label is not      *)
(* among the enrolled identities, and then changes neither registry nor    *)
(* store; otherwise it returns success, the image is gone from the store,  *)
(* the label is absent from the registry and every other identity is       *)
(* still present.                                                          *)
(***************************************************************************)
C10_RemoveFindsEnrolledLabels ==
    \A t \in Threads :
        Returned(t, "delete_face")
            => /\ loc[t].status \in {200, 404}
               /\ loc[t].status = 404
                      <=> Listed(entry.name) \notin Range(entry.names)
               /\ loc[t].status = 404
                      => /\ store = entry.store
                         /\ CurrentNames = entry.names
                         /\ CurrentEncodings = entry.encs
               /\ loc[t].status = 200
                      => /\ StoredIn(store, entry.name) = NoFile
                         /\ Listed(entry.name) \notin Range(CurrentNames)
                         /\ \A l \in Range(entry.names) \ {Listed(entry.name)} :
                                l \in Range(CurrentNames)

(***************************************************************************)
(* C11.  A reload returns the number of identities in the registry it      *)
(* built, and that is the number of stored images in which a face is       *)
(* detected: an image without a face, or one that cannot be read, is       *)
(* skipped and the others are loaded.                                      *)
(***************************************************************************)
ImagesWithFace ==
    { f \in FileNames : store[f] \in {"f1", "f2"} }

Service == <<store, heap, known_face_encodings, known_face_names,
             got_first_request, threaded, pc, loc, nCalls, entry, call,
             uploads, rec>>

\* The folders train is called on.
Folders == [FileNames -> {NoFile, "f1", "bad"}]

ListingsOf(folder) ==
    LET present == { f \in FileNames : folder[f] # NoFile }
        n == Cardinality(present)
    IN  { s \in [1..n -> present] : \A i, j \in 1..n : i # j => s[i] # s[j] }

\* lines 81-96: _load_model.  Both files must exist; a file that cannot be
\* loaded raises, and what was assigned before stays assigned.
load_model(d) ==
    IF d.model_file.state = "absent" \/ d.labels_file.state = "absent"
    THEN NoClassifier
    ELSE IF d.model_file.state \in {"corrupt", "partial"}
    THEN NoClassifier
    ELSE IF d.labels_file.state \in {"corrupt", "partial"}
    THEN [model |-> d.model_file.model, face_labels |-> << >>,
          is_trained |-> FALSE]
    ELSE [model |-> d.model_file.model,
          face_labels |-> d.labels_file.labels, is_trained |-> TRUE]

\* line 180: filename.lower().endswith(('.png', '.jpg', '.jpeg'))
image_suffix(f) == f.ext \in {"png", "jpg", "jpeg"}

\* lines 233-239: flow_from_directory numbers the classes by the sorted
\* names of the sub-directories of train_data ("a_b" sorts before "alice").
DirRank(d) == IF d = "a_b" THEN 1 ELSE IF d = "alice" THEN 2 ELSE 3

SortedDirs(dirs) ==
    CHOOSE s \in [1..Cardinality(dirs) -> dirs] :
        \A i, j \in 1..Cardinality(dirs) : i < j => DirRank(s[i]) < DirRank(s[j])

Idle == rq.at = "idle" /\ tr.at = "idle" /\ call.op = "none"

\* lines 17-32: CNNFaceModel()
Construct ==
    /\ Idle
    /\ cnn' = load_model(disk)
    /\ UNCHANGED <<Service, rq, disk, tr>>

\* line 144: train(known_faces_folder) is called on the object.
Train ==
    /\ Idle
    /\ \E folder \in Folders :
           tr' = [NoTraining EXCEPT !.at = "t158", !.caller = "train",
                                    !.folder = folder,
                                    !.cnn = cnn, !.disk = disk]
    /\ UNCHANGED <<Service, rq, cnn, disk>>

\* train returns `result`; `step` names where it left.
Finish(result, step) ==
    tr' = [tr EXCEPT !.at = "ret", !.result = result, !.step = step,
                     !.files = << >>, !.i = 0, !.classes = << >>]

\* A cleaning that empties the folder train was given, not train_data.
Train158CleaningFolder ==
    /\ tr.at = "t158"
    /\ IF ListingsOf(tr.folder) = { << >> }
       THEN /\ Finish(FALSE, "empty")
            /\ UNCHANGED <<disk, store>>
       ELSE /\ store' = [f \in FileNames |-> NoFile]
            /\ tr' = [tr EXCEPT !.at = "t178"]
            /\ UNCHANGED disk
    /\ UNCHANGED <<heap, known_face_encodings, known_face_names,
                   got_first_request, threaded, pc, loc, nCalls, entry, call,
                   uploads, rec, rq, cnn>>

\* lines 158-175: nothing to train on; else the old training data go.
Train158 ==
    /\ tr.at = "t158"
    /\ IF ListingsOf(tr.folder) = { << >> }
       THEN /\ Finish(FALSE, "empty")
            /\ UNCHANGED disk
       ELSE /\ disk' = [disk EXCEPT !.train_dir = {}]
            /\ tr' = [tr EXCEPT !.at = "t178"]
    /\ UNCHANGED <<Service, rq, cnn>>

\* lines 178-179: self.face_labels = [] and the listing of the folder.
Train178 ==
    /\ tr.at = "t178"
    /\ cnn' = [cnn EXCEPT !.face_labels = << >>]
    /\ \E files \in ListingsOf(tr.folder) :
           tr' = [tr EXCEPT !.at = "t179", !.files = files, !.i = 1]
    /\ UNCHANGED <<Service, rq, disk>>

\* line 182
person_name(f) == splitext0(f)

\* line 200: range(10)
Variations == 10

\* line 193: cv2.imread gives None, and raises nothing, for a file it
\* cannot decode.
imread(img) == IF Readable(img) THEN img ELSE "None"

\* lines 195-212: original.jpg and aug_0.jpg .. aug_9.jpg written into the
\* person's directory from the image read, if one was read.
copies(dir, img) ==
    IF imread(img) # "None"
    THEN { [dir |-> dir, source |-> img, count |-> 1 + Variations] }
    ELSE {}

\* lines 179-212: the next file of the listing: its label is appended and
\* its directory of training images made.  Making the directory or writing
\* an image may raise (lines 270-272).
Train179 ==
    /\ tr.at = "t179"
    /\ IF tr.i > Len(tr.files)
       THEN /\ tr' = [tr EXCEPT !.at = "t215"]
            /\ UNCHANGED <<cnn, disk>>
       ELSE LET f == tr.files[tr.i]
                new == image_suffix(f)
                         /\ person_name(f) \notin Range(cnn.face_labels)
                written == copies(person_name(f), tr.folder[f])
            IN  \/ /\ cnn' = [cnn EXCEPT !.face_labels =
                               IF new THEN Append(@, person_name(f)) ELSE @]
                   /\ disk' = [disk EXCEPT !.train_dir =
                               IF new THEN @ \cup {person_name(f)} ELSE @]
                   /\ tr' = [tr EXCEPT !.i = tr.i + 1,
                                       !.images =
                                           IF image_suffix(f) /\ written # {}
                                           THEN { r \in @ :
                                                    r.dir # person_name(f) }
                                                \cup written
                                           ELSE @]
                \/ /\ new
                   /\ cnn' = [cnn EXCEPT !.face_labels =
                                             Append(@, person_name(f))]
                   /\ Finish(FALSE, "prepare")
                   /\ UNCHANGED disk
    /\ UNCHANGED <<Service, rq>>

\* lines 215-217: at least two persons.
Train215 ==
    /\ tr.at = "t215"
    /\ IF Len(cnn.face_labels) < 2
       THEN Finish(FALSE, "floor")
       ELSE tr' = [tr EXCEPT !.at = "t233"]
    /\ UNCHANGED <<Service, rq, cnn, disk>>

\* lines 220-248: the generators over train_data.
Train233 ==
    /\ tr.at = "t233"
    /\ \/ tr' = [tr EXCEPT !.at = "t251",
                           !.classes = SortedDirs(disk.train_dir)]
       \/ Finish(FALSE, "generators")
    /\ UNCHANGED <<Service, rq, cnn, disk>>

\* line 251: self.model = self._create_model(len(self.face_labels));
\* building the network may raise.
Train251 ==
    /\ tr.at = "t251"
    /\ \/ /\ cnn' = [cnn EXCEPT !.model =
                      [outputs |-> Len(cnn.face_labels),
                       classes |-> tr.classes, fitted |-> FALSE]]
          /\ tr' = [tr EXCEPT !.at = "t254"]
       \/ /\ Finish(FALSE, "create")
          /\ UNCHANGED cnn
    /\ UNCHANGED <<Service, rq, disk>>

\* lines 254-260: self.model.fit(...); it may raise.
Train254 ==
    /\ tr.at = "t254"
    /\ \/ /\ cnn' = [cnn EXCEPT !.model.fitted = TRUE]
          /\ tr' = [tr EXCEPT !.at = "t263"]
       \/ /\ Finish(FALSE, "fit")
          /\ UNCHANGED cnn
    /\ UNCHANGED <<Service, rq, disk>>

\* lines 98-114: _save_model writes the model, then the labels; an
\* exception in either is caught and False returned.
SaveOutcomes == {"saved", "model_unsaved", "labels_unsaved"}

save_model(d, c, outcome) ==
    IF outcome = "model_unsaved" THEN d
    ELSE IF outcome = "labels_unsaved"
    THEN [d EXCEPT !.model_file = [state |-> "saved", model |-> c.model],
                   !.labels_file = [state |-> "corrupt", labels |-> << >>]]
    ELSE [d EXCEPT !.model_file = [state |-> "saved", model |-> c.model],
                   !.labels_file = [state |-> "saved",
                                    labels |-> c.face_labels]]

\* lines 263-268: self._save_model(), its result dropped; then
\* self.is_trained = True and train returns True.
Train263 ==
    /\ tr.at = "t263"
    /\ \E outcome \in SaveOutcomes :
           /\ disk' = save_model(disk, cnn, outcome)
           /\ Finish(TRUE, outcome)
    /\ cnn' = [cnn EXCEPT !.is_trained = TRUE]
    /\ UNCHANGED <<Service, rq>>

\* train has returned; recognize_faces goes on at line 50.
TrainReturn ==
    /\ tr.at = "ret"
    /\ tr' = NoTraining
    /\ rq' = IF tr.caller = "recognize_faces"
             THEN [rq EXCEPT !.at = "detect50"] ELSE rq
    /\ UNCHANGED <<Service, cnn, disk>>

(***************************************************************************)
(* recognize_faces (app/services/recognition_service.py) statement by      *)
(* statement, with its method and use_cnn_model arguments.  `rq` holds the *)
(* locals of the call; rq.detections lists the calls of detect_faces with  *)
(* the strategy each used and the number of boxes it returned, and         *)
(* rq.compared the kinds of probe handed to face_distance (history).       *)
(***************************************************************************)
Methods == {"hog", "HOG", "cnn", "custom_hog", "lbp", "haar"}

\* feature_extraction.py lines 14-17
FeatureExtractionMethod == {"hog", "cnn", "custom_hog", "lbp"}

\* str.lower of line 62
lower(m) == IF m = "HOG" THEN "hog" ELSE m

\* feature_extraction.py lines 53-69: set_method
set_method(m) ==
    IF lower(m) \in FeatureExtractionMethod THEN lower(m) ELSE "hog"

\* The descriptors extract_features returns (feature_extraction.py lines
\* 114-122): HOG+LBP vectors under custom_hog and lbp, embeddings
\* otherwise; recognition_service.py line 66 puts True in their place.
ProbesOf(strategy, use_cnn) ==
    IF use_cnn THEN {"T"}
    ELSE IF strategy \in {"custom_hog", "lbp"} THEN {"h"}
    ELSE {"e1", "q", "r"}

DescriptorKind(d) ==
    IF d = "h" THEN "hand_engineered"
    ELSE IF d = "T" THEN "placeholder"
    ELSE "embedding"

\* cnn.py line 299
PREDICT_THRESHOLD == 60
Confidences == {59, 60, 90}

\* predict without the test of line 284.
predict_untested(c, best_index, confidence, fails) ==
    IF fails THEN [name |-> "Erreur", confidence |-> 0]
    ELSE IF confidence >= PREDICT_THRESHOLD
    THEN IF best_index > Len(c.face_labels)
         THEN [name |-> "Erreur", confidence |-> 0]
         ELSE [name |-> c.face_labels[best_index], confidence |-> confidence]
    ELSE [name |-> "Inconnu", confidence |-> confidence]

\* predict with a strict test at line 300.
predict_above(c, best_index, confidence, fails) ==
    IF ~c.is_trained \/ c.model = NoModel
    THEN [name |-> "None", confidence |-> 0]
    ELSE IF fails THEN [name |-> "Erreur", confidence |-> 0]
    ELSE IF confidence > PREDICT_THRESHOLD
    THEN IF best_index > Len(c.face_labels)
         THEN [name |-> "Erreur", confidence |-> 0]
         ELSE [name |-> c.face_labels[best_index], confidence |-> confidence]
    ELSE [name |-> "Inconnu", confidence |-> confidence]

\* cnn.py lines 284-307: predict, for the class and the probability the
\* network puts out; `fails` when preprocessing or inference raises.
predict(c, best_index, confidence, fails) ==
    IF ~c.is_trained \/ c.model = NoModel
    THEN [name |-> "None", confidence |-> 0]
    ELSE IF fails THEN [name |-> "Erreur", confidence |-> 0]
    ELSE IF confidence >= PREDICT_THRESHOLD
    THEN IF best_index > Len(c.face_labels)
         THEN [name |-> "Erreur", confidence |-> 0]
         ELSE [name |-> c.face_labels[best_index], confidence |-> confidence]
    ELSE [name |-> "Inconnu", confidence |-> confidence]

\* cnn.py line 292: the outputs of the network for one image, a
\* probability for each class, in hundredths.
Hundredths == {10, 40, 41, 50, 59, 60, 90}

RECURSIVE Total(_)
Total(ps) == IF ps = << >> THEN 0 ELSE Head(ps) + Total(Tail(ps))

Outputs(n) == { ps \in [1..n -> Hundredths] : Total(ps) = 100 }

\* cnn.py line 295: np.argmax, the first index of the greatest output.
argmax(ps) ==
    CHOOSE i \in 1..Len(ps) :
        /\ \A j \in 1..Len(ps) : ps[j] <= ps[i]
        /\ \A j \in 1..(i - 1) : ps[j] < ps[i]

\* cnn.py lines 274-307: predict(face_image) is called on the object;
\* call.arg holds the object as it was found, the outputs of the network
\* for the image and whether preprocessing or inference raises.
Predict ==
    /\ Idle
    /\ \E fails \in BOOLEAN :
       \E ps \in (IF cnn.model = NoModel THEN {<< >>}
                  ELSE Outputs(cnn.model.outputs)) :
           call' = [op |-> "predict",
                    arg |-> [self |-> cnn, predictions |-> ps,
                             fails |-> fails],
                    out |-> IF ps = << >> THEN predict(cnn, 0, 0, fails)
                            ELSE predict(cnn, argmax(ps), ps[argmax(ps)],
                                         fails),
                    done |-> TRUE]
    /\ UNCHANGED <<store, heap, known_face_encodings, known_face_names,
                   got_first_request, threaded, pc, loc, nCalls, entry,
                   rq, cnn, disk, tr, uploads, rec>>

\* The caller has the result.
CallReturn ==
    /\ call.op # "none"
    /\ call' = NoCall
    /\ UNCHANGED <<store, heap, known_face_encodings, known_face_names,
                   got_first_request, threaded, pc, loc, nCalls, entry,
                   rq, cnn, disk, tr, uploads, rec>>

\* A test that takes every list for a non-empty one.
any_list(known) == TRUE

\* A threshold that accepts the confidence equal to it.
accepted_from(confidence) == confidence >= FACE_RECOGNITION_THRESHOLD

\* recognition_service.py line 94: the truth value of the list
nonempty(known) == known # << >>

\* line 100
confidence_of(distance) == 100 - distance

\* line 104
accepted(confidence) == confidence > FACE_RECOGNITION_THRESHOLD

FailWith(status, error, compared) ==
    rq' = [NoRequest EXCEPT !.at = "done", !.status = status,
                            !.error = error,
                            !.method = rq.method, !.use_cnn = rq.use_cnn,
                            !.detections = rq.detections,
                            !.boxes = rq.boxes, !.probes = rq.probes,
                            !.encs = rq.encs, !.names = rq.names,
                            !.compared = compared]

Fail(status, error) == FailWith(status, error, rq.compared)

\* lines 24-38: no file; the upload is saved and loaded, which raises for
\* one that is no image; the extractor is made for the method.
Uploads == {"none", "bad", "image"}

Recognize ==
    /\ Idle
    /\ \E upload \in Uploads, method \in Methods, use_cnn \in BOOLEAN :
           rq' = IF upload = "none"
                 THEN [NoRequest EXCEPT !.at = "done", !.status = 400,
                                        !.error = "rejected"]
                 ELSE IF upload = "bad"
                 THEN [NoRequest EXCEPT !.at = "done", !.status = 500,
                                        !.error = "exception"]
                 ELSE [NoRequest EXCEPT
                          !.at = IF use_cnn THEN "cnn43" ELSE "detect50",
                          !.method = method, !.use_cnn = use_cnn,
                          !.strategy = set_method(method)]
    /\ UNCHANGED <<Service, cnn, disk, tr>>

\* lines 42-47: a CNNFaceModel is made, and trained on the store if it
\* loaded no model.
Recognize43 ==
    /\ rq.at = "cnn43"
    /\ cnn' = load_model(disk)
    /\ IF cnn'.is_trained
       THEN /\ rq' = [rq EXCEPT !.at = "detect50"]
            /\ UNCHANGED tr
       ELSE /\ rq' = [rq EXCEPT !.at = "train47"]
            /\ tr' = [NoTraining EXCEPT !.at = "t158",
                                        !.caller = "recognize_faces",
                                        !.folder = store,
                                        !.cnn = cnn', !.disk = disk]
    /\ UNCHANGED <<Service, disk>>

Cascades == {"custom_hog", "lbp"}

\* The boxes detect_faces returns when it finds n faces, as (top, right,
\* bottom, left): faces of one pixel side by side, the i-th at column i-1.
face_locations(n) == [i \in 1..n |-> << 0, i, 1, i - 1 >>]

\* line 50: detect_faces with the extractor's strategy; the cascades of
\* feature_extraction.py lines 138-149 and 172-183 may raise.  Lines
\* 53-54: with no box and a method other than 'hog', once more.
Detect50 ==
    /\ rq.at = "detect50"
    /\ \/ \E n \in 0..MaxFaces :
              rq' = [rq EXCEPT
                        !.detections = Append(@, [strategy |-> rq.strategy,
                                                  boxes |-> n]),
                        !.boxes = n,
                        !.face_locations = face_locations(n),
                        !.at = IF n = 0 /\ rq.method # "hog"
                               THEN "retry55" ELSE "known59"]
       \/ /\ rq.strategy \in Cascades
          /\ Fail(500, "exception")
    /\ UNCHANGED <<Service, cnn, disk, tr>>

\* lines 55-56: set_method(HOG) and detect_faces again.
Retry55 ==
    /\ rq.at = "retry55"
    /\ \E n \in 0..MaxFaces :
           rq' = [rq EXCEPT
                     !.strategy = "hog",
                     !.detections = Append(@, [strategy |-> "hog",
                                               boxes |-> n]),
                     !.boxes = n,
                     !.face_locations = face_locations(n),
                     !.at = "known59"]
    /\ UNCHANGED <<Service, cnn, disk, tr>>

\* line 59: get_known_faces()
Known59 ==
    /\ rq.at = "known59"
    /\ rq' = [rq EXCEPT !.encs = known_face_encodings,
                        !.names = known_face_names, !.at = "extract64"]
    /\ UNCHANGED <<Service, cnn, disk, tr>>

\* An encoder that leaves out the faces it cannot encode.
encodings_of_some(strategy, use_cnn, boxes) ==
    UNION { [1..m -> ProbesOf(strategy, use_cnn)] : m \in 0..boxes }

\* feature_extraction.py lines 114-122 and 209-233, and line 66 here: what
\* extract_features may return for the boxes, one descriptor for each, in
\* their order.
extract_features(strategy, use_cnn, boxes) ==
    [1..boxes -> ProbesOf(strategy, use_cnn)]

Min(a, b) == IF a <= b THEN a ELSE b

\* line 78 and lines 108-119: zip pairs the k-th box with the k-th
\* descriptor and stops at the shorter list; the k-th result has id k-1
\* and the box it was paired with.
result_of(i, face_location) == [id |-> i, location |-> face_location]

\* lines 63-66: one descriptor for each box.
Extract64 ==
    /\ rq.at = "extract64"
    /\ \E probes \in extract_features(rq.strategy, rq.use_cnn, rq.boxes) :
           rq' = [rq EXCEPT !.probes = probes, !.k = 1, !.at = "match78"]
    /\ UNCHANGED <<Service, cnn, disk, tr>>

\* lines 96-105 for one probe.
match(known, labels, probe) ==
    LET ds == face_distances(known, probe)
        best_match_index == argmin(ds)
        confidence == confidence_of(ds[best_match_index])
    IN  [name |-> IF accepted(confidence)
                  THEN labels[best_match_index] ELSE "Inconnu",
         confidence |-> confidence]

\* lines 78-119: the next face.  The classifier predicts it if it is
\* trained; else it is matched with the known descriptors if there are
\* any; face_distance raises for a probe of another length than theirs,
\* and argmin for no distances.  Lines 137-149 after the last face.
Match78 ==
    /\ rq.at = "match78"
    /\ IF rq.k > Min(Len(rq.face_locations), Len(rq.probes))
       THEN rq' = [rq EXCEPT !.at = "done", !.status = 200]
       ELSE LET probe == rq.probes[rq.k]
                known == heap[rq.encs]
                labels == heap[rq.names]
                Located == Append(rq.located,
                               result_of(rq.k - 1, rq.face_locations[rq.k]))
            IN  IF rq.use_cnn /\ cnn.is_trained
                THEN \E best \in 1..(IF cnn.model.outputs = 0 THEN 1
                                     ELSE cnn.model.outputs),
                        confidence \in Confidences, fails \in BOOLEAN :
                         rq' = [rq EXCEPT !.k = rq.k + 1, !.located = Located,
                                  !.results = Append(@,
                                      predict(cnn, best, confidence, fails))]
                ELSE IF nonempty(known)
                THEN IF DescriptorKind(probe) = "hand_engineered"
                        \/ Len(known) = 0
                     THEN FailWith(500, "exception",
                                   rq.compared \cup {DescriptorKind(probe)})
                     ELSE rq' = [rq EXCEPT !.k = rq.k + 1, !.located = Located,
                                   !.compared = @ \cup {DescriptorKind(probe)},
                                   !.results = Append(@,
                                       match(known, labels, probe))]
                ELSE rq' = [rq EXCEPT !.k = rq.k + 1, !.located = Located,
                              !.results = Append(@, [name |-> "Inconnu",
                                                     confidence |-> 0])]
    /\ UNCHANGED <<Service, cnn, disk, tr>>

\* The response is returned.
RecognizeReturn ==
    /\ rq.at = "done"
    /\ rq' = NoRequest
    /\ UNCHANGED <<Service, cnn, disk, tr>>

(***************************************************************************)
(* The pipeline on its own: the registry as a reload left it, for every    *)
(* store of up to two images and every order of listing it, then calls of  *)
(* recognize_faces and of the classifier, one at a time.                   *)
(***************************************************************************)
PipelineStores == [FileNames -> {NoFile, "f1", "f2"}]

RECURSIVE EncodingsOfListing(_)
EncodingsOfListing(fs) ==
    IF fs = << >> THEN << >>
    ELSE (IF LoadFile(Head(fs)) # << >>
          THEN << LoadFile(Head(fs))[1] >> ELSE << >>)
         \o EncodingsOfListing(Tail(fs))

InitPipeline ==
    /\ store \in PipelineStores
    /\ \E files \in Listings :
           heap = [a \in Addresses |->
                      IF a = 1 THEN EncodingsOfListing(files)
                      ELSE IF a = 2 THEN LabelsOfListing(files)
                      ELSE << >>]
    /\ known_face_encodings = 1
    /\ known_face_names = 2
    /\ got_first_request = TRUE
    /\ threaded = FALSE
    /\ pc = [t \in Threads |-> "idle"]
    /\ loc = [t \in Threads |-> NoLocals]
    /\ nCalls = 0
    /\ entry = NoEntry
    /\ rq = NoRequest
    /\ cnn = NoClassifier
    /\ disk = NoDisk
    /\ tr = NoTraining
    /\ call = NoCall
    /\ uploads = NoUploads
    /\ rec = [t \in Threads |-> NoRecognize]

NextPipeline ==
    \/ Construct
    \/ Train
    \/ Train158
    \/ Train178
    \/ Train179
    \/ Train215
    \/ Train233
    \/ Train251
    \/ Train254
    \/ Train263
    \/ TrainReturn
    \/ Recognize
    \/ Recognize43
    \/ Detect50
    \/ Retry55
    \/ Known59
    \/ Extract64
    \/ Match78
    \/ RecognizeReturn
    \/ Predict
    \/ CallReturn

SpecPipeline == InitPipeline /\ [][NextPipeline]_vars

(***************************************************************************)
(* Claims about one call of recognize_faces.                               *)
(***************************************************************************)
\* The call has come to its response, having matched its faces with the
\* known descriptors (no classifier).
Matched == rq.at = "done" /\ rq.status = 200 /\ ~rq.use_cnn

Least(ds) == CHOOSE d \in Range(ds) : \A j \in 1..Len(ds) : ds[j] >= d

(***************************************************************************)
(* C12.  Whatever probe recognize_faces hands to face_distance with the    *)
(* registry's descriptors is an embedding like them: a HOG+LBP probe       *)
(* extracted under custom_hog or lbp is never compared with them.          *)
(***************************************************************************)
C12_ComparesSameKindOnly ==
    rq.compared \subseteq {"embedding"}

(***************************************************************************)
(* C13.  When the strategy the extractor is configured with is not hog     *)
(* and finds no box, detect_faces is called exactly once more, with hog;   *)
(* when it finds a box, or the configured strategy is hog, detect_faces    *)
(* is called exactly once.                                                 *)
(***************************************************************************)
C13_RetriesOnlyAnotherStrategy ==
    (rq.at \in {"known59", "extract64", "match78", "done"}
     /\ rq.detections # << >>)
        => LET configured == set_method(rq.method)
               first == rq.detections[1]
           IN  /\ first.strategy = configured
               /\ IF configured # "hog" /\ first.boxes = 0
                  THEN /\ Len(rq.detections) = 2
                       /\ rq.detections[2].strategy = "hog"
                  ELSE Len(rq.detections) = 1

(***************************************************************************)
(* C14.  With known descriptors, each face is reported with confidence     *)
(* 1 - (its least distance to them), and with the label of a nearest       *)
(* descriptor only if that confidence is strictly greater than the         *)
(* threshold; else with the label Inconnu and the same confidence.         *)
(***************************************************************************)
C14_ConfidenceAndThreshold ==
    (Matched /\ heap[rq.encs] # << >>)
        => /\ Len(rq.results) = Len(rq.probes)
           /\ \A i \in 1..Len(rq.results) :
                  LET ds == face_distances(heap[rq.encs], rq.probes[i])
                      c == 100 - Least(ds)
                      r == rq.results[i]
                  IN  /\ r.confidence = c
                      /\ c > FACE_RECOGNITION_THRESHOLD
                             => \E j \in 1..Len(ds) :
                                    /\ ds[j] = Least(ds)
                                    /\ r.name = heap[rq.names][j]
                      /\ c <= FACE_RECOGNITION_THRESHOLD
                             => r.name = "Inconnu"

\* Two faces: one at distance 0 reported with a label and confidence 1,
\* one with confidence equal to the threshold reported as Inconnu.
C14_Witness ==
    /\ Matched /\ heap[rq.encs] # << >>
    /\ Len(rq.results) = 2
    /\ rq.results[1].confidence = 100
    /\ rq.results[1].name # "Inconnu"
    /\ rq.results[2] = [name |-> "Inconnu",
                        confidence |-> FACE_RECOGNITION_THRESHOLD]

(***************************************************************************)
(* C15.  The label reported for an accepted face is that of the first      *)
(* known descriptor, in the order of the list, at the least distance.      *)
(***************************************************************************)
C15_FirstOfTheNearest ==
    (Matched /\ heap[rq.encs] # << >>)
        => \A i \in 1..Len(rq.results) :
               LET ds == face_distances(heap[rq.encs], rq.probes[i])
               IN  rq.results[i].name # "Inconnu"
                       => \E j \in 1..Len(ds) :
                              /\ ds[j] = Least(ds)
                              /\ \A h \in 1..(j - 1) : ds[h] > ds[j]
                              /\ rq.results[i].name = heap[rq.names][j]

\* Two known descriptors at the same distance: the face gets the label
\* listed first, "alice", not the one that sorts first, "a_b".
C15_Witness ==
    /\ Matched
    /\ heap[rq.encs] = << "e1", "e1" >>
    /\ heap[rq.names] = << "alice", "a_b" >>
    /\ Len(rq.results) >= 1
    /\ rq.probes[1] = "e1"
    /\ rq.results[1].name = "alice"

(***************************************************************************)
(* C16.  With no known descriptor, every detected face is reported as      *)
(* Inconnu with confidence 0, and the call does not fail.                  *)
(***************************************************************************)
C16_EmptyRegistryGivesUnknown ==
    (/\ rq.at = "done" /\ rq.encs # 0 /\ heap[rq.encs] = << >>
     /\ ~(rq.use_cnn /\ cnn.is_trained))
        => /\ rq.status = 200
           /\ Len(rq.results) = rq.boxes
           /\ \A i \in 1..Len(rq.results) :
                  rq.results[i] = [name |-> "Inconnu", confidence |-> 0]

\* Two faces have been reported against an empty registry.
C16_Witness ==
    /\ rq.at = "done" /\ rq.encs # 0 /\ heap[rq.encs] = << >>
    /\ ~rq.use_cnn
    /\ rq.status = 200
    /\ Len(rq.results) = 2

(***************************************************************************)
(* Claims about one call of CNNFaceModel.train, at its return.             *)
(***************************************************************************)
(***************************************************************************)
(* C17.  train on a folder with fewer than two labels fails and leaves     *)
(* model, face_labels and is_trained as they were at the call.             *)
(***************************************************************************)
C17_TooFewLabelsChangesNothing ==
    (tr.at = "ret" /\ tr.step \in {"empty", "floor"})
        => /\ ~tr.result
           /\ cnn = tr.cnn

(***************************************************************************)
(* C18.  When train fails, in preparing the data, building the model,      *)
(* fitting or saving, the object and the two files are as they were at     *)
(* the call.                                                               *)
(***************************************************************************)
C18_FailedTrainChangesNothing ==
    (tr.at = "ret"
     /\ tr.step \in {"prepare", "generators", "create", "fit",
                     "model_unsaved", "labels_unsaved"})
        => /\ cnn = tr.cnn
           /\ disk.model_file = tr.disk.model_file
           /\ disk.labels_file = tr.disk.labels_file

(***************************************************************************)
(* C19.  Whenever is_trained is true and no train call is running, the     *)
(* list of labels is as long as the model has output classes.              *)
(***************************************************************************)
C19_LabelsAsLongAsClasses ==
    (tr.at = "idle" /\ cnn.is_trained)
        => Len(cnn.face_labels) = cnn.model.outputs

(***************************************************************************)
(* C20.  After train returned True, label i is the person of output        *)
(* class i of the model, for every order of listing the folder.            *)
(***************************************************************************)
C20_LabelOfClass ==
    (tr.at = "ret" /\ tr.result)
        => /\ Len(cnn.face_labels) = Len(cnn.model.classes)
           /\ \A i \in 1..Len(cnn.face_labels) :
                  cnn.face_labels[i] = cnn.model.classes[i]

(***************************************************************************)
(* The classifier's artifacts.                                             *)
(***************************************************************************)
\* What _save_model leaves on disk when both of its writes succeed.
SavedBy(c) ==
    [model_file |-> [state |-> "saved", model |-> c.model],
     labels_file |-> [state |-> "saved", labels |-> c.face_labels]]

(***************************************************************************)
(* Saving and loading at once.  _save_model writes the model file and then *)
(* the label file, each in place; a request served on another thread       *)
(* builds its own CNNFaceModel, whose _load_model reads the two files.     *)
(* rq.cnn_model is that object; rq.trainer and rq.trained are the locals   *)
(* and the attributes of the training run when the files were read         *)
(* (history).                                                              *)
(***************************************************************************)
\* cnn.py line 103: model.save opens the model file for writing.
Save103 ==
    /\ tr.at = "t263"
    /\ \/ /\ disk' = [disk EXCEPT !.model_file =
                         [state |-> "partial", model |-> NoModel]]
          /\ tr' = [tr EXCEPT !.at = "s103"]
       \/ /\ tr' = [tr EXCEPT !.at = "t265", !.step = "model_unsaved"]
          /\ UNCHANGED disk
    /\ UNCHANGED <<Service, rq, cnn>>

\* line 103: the model file is complete, or the write breaks off.
Save103Done ==
    /\ tr.at = "s103"
    /\ \/ /\ disk' = [disk EXCEPT !.model_file = SavedBy(cnn).model_file]
          /\ tr' = [tr EXCEPT !.at = "s106"]
       \/ /\ tr' = [tr EXCEPT !.at = "t265", !.step = "model_unsaved"]
          /\ UNCHANGED disk
    /\ UNCHANGED <<Service, rq, cnn>>

\* line 106: open(self.labels_file, 'wb') empties the label file.
Save106 ==
    /\ tr.at = "s106"
    /\ \/ /\ disk' = [disk EXCEPT !.labels_file =
                         [state |-> "partial", labels |-> << >>]]
          /\ tr' = [tr EXCEPT !.at = "s107"]
       \/ /\ tr' = [tr EXCEPT !.at = "t265", !.step = "labels_unsaved"]
          /\ UNCHANGED disk
    /\ UNCHANGED <<Service, rq, cnn>>

\* line 107: pickle.dump writes the labels, or breaks off.
Save107 ==
    /\ tr.at = "s107"
    /\ \/ /\ disk' = [disk EXCEPT !.labels_file = SavedBy(cnn).labels_file]
          /\ tr' = [tr EXCEPT !.at = "t265", !.step = "saved"]
       \/ /\ tr' = [tr EXCEPT !.at = "t265", !.step = "labels_unsaved"]
          /\ UNCHANGED disk
    /\ UNCHANGED <<Service, rq, cnn>>

\* lines 265-268: self.is_trained = True; return True.
Train265 ==
    /\ tr.at = "t265"
    /\ cnn' = [cnn EXCEPT !.is_trained = TRUE]
    /\ Finish(TRUE, tr.step)
    /\ UNCHANGED <<Service, rq, disk>>

\* recognition_service.py lines 42-44: a request with use_cnn_model builds
\* its CNNFaceModel, whatever a training run on another thread is at.
LoadClassifier ==
    /\ rq.at = "idle"
    /\ rq' = [NoRequest EXCEPT !.at = "loaded44", !.use_cnn = TRUE,
                               !.cnn_model = load_model(disk),
                               !.trainer = tr, !.trained = cnn]
    /\ UNCHANGED <<Service, cnn, disk, tr>>

\* The request goes on with the object it built (lines 46-149, followed in
\* SpecPipeline).
LoadedReturn ==
    /\ rq.at = "loaded44"
    /\ rq' = NoRequest
    /\ UNCHANGED <<Service, cnn, disk, tr>>

NextSaving ==
    \/ Train
    \/ Train158
    \/ Train178
    \/ Train179
    \/ Train215
    \/ Train233
    \/ Train251
    \/ Train254
    \/ Save103
    \/ Save103Done
    \/ Save106
    \/ Save107
    \/ Train265
    \/ TrainReturn
    \/ LoadClassifier
    \/ LoadedReturn

\* The models directory is empty and so is the store: train takes its
\* folder as an argument.
InitSaving == InitPipeline /\ store = [f \in FileNames |-> NoFile]

SpecSaving == InitSaving /\ [][NextSaving]_vars

\* The object a load obtains from the files `c` has saved completely.
Loaded(c) ==
    [model |-> c.model, face_labels |-> c.face_labels, is_trained |-> TRUE]

\* C22: the object a request loads while a training run is under way is the
\* one the files held when the run began or the one the run saves whole.
C22_LoadsOldOrNewPair ==
    (rq.at = "loaded44" /\ rq.trainer.at # "idle") =>
        rq.cnn_model \in {load_model(rq.trainer.disk), Loaded(rq.trained)}

\* C21: when train returns True the object is trained and the model file
\* and the label file on disk are the ones this run wrote; and the two
\* files are always there together, written by the same run.
C21_SuccessMeansBothWritten ==
    /\ (tr.at = "ret" /\ tr.result) =>
           /\ cnn.is_trained
           /\ disk.model_file = SavedBy(cnn).model_file
           /\ disk.labels_file = SavedBy(cnn).labels_file
    /\ (disk.model_file.state = "saved") <=> (disk.labels_file.state = "saved")

(***************************************************************************)
(* predict on its own.                                                     *)
(***************************************************************************)
Greatest(ps) == CHOOSE x \in Range(ps) : \A y \in Range(ps) : y <= x

\* C23: predict on an object that is not trained returns (None, 0) and
\* leaves the attributes of the object as they were.
C23_UntrainedPredictsNothing ==
    (call.op = "predict" /\ ~call.arg.self.is_trained) =>
        /\ call.out = [name |-> "None", confidence |-> 0]
        /\ cnn = call.arg.self

\* An object with a model and labels but not trained (its fit raised) was
\* asked to predict.
C23_Witness ==
    /\ call.op = "predict"
    /\ ~call.arg.self.is_trained
    /\ call.arg.self.model # NoModel
    /\ Len(call.arg.self.face_labels) = 2
    /\ call.out.name = "None"

\* C24: on a trained object predict takes the greatest output as the
\* confidence and the first class that has it; it returns the entry of the
\* label list at that class with the confidence exactly when the confidence
\* is at least 0.6, ("Inconnu", confidence) when it is less, and
\* ("Erreur", 0) when preprocessing, inference or the look-up of the label
\* fails.
C24_TrainedPredicts ==
    (call.op = "predict" /\ call.arg.self.is_trained) =>
        LET c == call.arg.self
            ps == call.arg.predictions
            confidence == Greatest(ps)
            best == CHOOSE i \in 1..Len(ps) :
                        ps[i] = confidence /\ \A j \in 1..(i - 1) : ps[j] # confidence
            erreur == [name |-> "Erreur", confidence |-> 0]
        IN  /\ cnn = c
            /\ call.arg.fails => call.out = erreur
            /\ (~call.arg.fails /\ confidence < PREDICT_THRESHOLD) =>
                   call.out = [name |-> "Inconnu", confidence |-> confidence]
            /\ (~call.arg.fails /\ confidence >= PREDICT_THRESHOLD) =>
                   call.out = IF best \in 1..Len(c.face_labels)
                              THEN [name |-> c.face_labels[best],
                                    confidence |-> confidence]
                              ELSE erreur

\* A trained object returned a label at a confidence of exactly 0.6.
C24_Witness ==
    /\ call.op = "predict"
    /\ call.arg.self.is_trained
    /\ ~call.arg.fails
    /\ Greatest(call.arg.predictions) = PREDICT_THRESHOLD
    /\ call.out.name \in Range(call.arg.self.face_labels)
    /\ call.out.confidence = PREDICT_THRESHOLD

(***************************************************************************)
(* A store that cannot be listed.  os.listdir of line 21 stands outside    *)
(* the try of lines 27-42; inside register_face and delete_face the        *)
(* exception is caught by the handler (lines 77-79, 95-97), inside         *)
(* initialize (face_routes.py lines 9-13) nothing catches it.              *)
(***************************************************************************)
Load21Raises(t) ==
    /\ pc[t] = "load21"
    /\ IF loc[t].op = "initialize"
       THEN /\ SetLoc(t, [loc[t] EXCEPT !.error = "listdir"])
            /\ Goto(t, "raised")
       ELSE /\ SetLoc(t, [loc[t] EXCEPT !.status = 500, !.error = "listdir"])
            /\ Goto(t, "return")
    /\ UNCHANGED <<store, Registry, got_first_request, threaded, Pipeline, nCalls, entry>>

\* The exception leaves initialize: the request that triggered it fails,
\* and Flask has not noted a first request, so the next one runs
\* initialize again.
Propagate(t) ==
    /\ pc[t] = "raised"
    /\ SetLoc(t, NoLocals)
    /\ Goto(t, "idle")
    /\ heap' = Release(heap, {loc[t].encs, loc[t].names} \ {0},
                       HeldBut(t) \cup {known_face_encodings, known_face_names})
    /\ entry' = IF Mutating(t) THEN NoEntry ELSE entry
    /\ UNCHANGED <<store, known_face_encodings, known_face_names,
                   got_first_request, threaded, Pipeline, nCalls>>

NextStartup ==
    \/ Next
    \/ \E t \in Threads : Load21Raises(t)
    \/ \E t \in Threads : Propagate(t)

\* One request at a time, over a store whose listing may fail.
SpecStartup == InitSeq /\ [][NextStartup]_vars

\* C25: when the store cannot be listed during initialize, the registry is
\* empty and initialize goes on to its end: the exception does not leave
\* it.
C25_StartupSurvivesScanFailure ==
    \A t \in Threads :
        (loc[t].op = "initialize" /\ loc[t].error = "listdir") =>
            /\ pc[t] = "return"
            /\ CurrentNames = << >>
            /\ CurrentEncodings = << >>

(***************************************************************************)
(* Functions of images, each applied on its own: `call` starts as a call   *)
(* with its arguments drawn from a bounded set and the function fills in   *)
(* what it returns.                                                        *)
(***************************************************************************)
Pending(op, arg) == [op |-> op, arg |-> arg, out |-> << >>, done |-> FALSE]

Returns(out) == call' = [call EXCEPT !.out = out, !.done = TRUE]

Applied(op) == call.op = op /\ call.done

Others == <<store, heap, known_face_encodings, known_face_names,
            got_first_request, threaded, pc, loc, nCalls, entry,
            rq, cnn, disk, tr, uploads, rec>>

(***************************************************************************)
(* feature_extraction.py lines 124-190: the two cascade detectors.  The    *)
(* native detector gives boxes (x, y, w, h) inside the image, each at      *)
(* least one pixel wide and high.                                          *)
(***************************************************************************)
ImageWidth == 2
ImageHeight == 3
MaxBoxes == 2

NativeBoxes ==
    { b \in (0..(ImageWidth - 1)) \X (0..(ImageHeight - 1))
              \X (1..ImageWidth) \X (1..ImageHeight) :
          b[1] + b[3] <= ImageWidth /\ b[2] + b[4] <= ImageHeight }

Detections == UNION { [1..n -> NativeBoxes] : n \in 0..MaxBoxes }

\* A conversion that gives (top, left, bottom, right).
RECURSIVE corners_of(_)
corners_of(opencv_faces) ==
    IF opencv_faces = << >> THEN << >>
    ELSE LET b == Head(opencv_faces)
         IN  << <<b[2], b[1], b[2] + b[4], b[1] + b[3]>> >>
             \o corners_of(Tail(opencv_faces))

\* lines 152-154 and 186-188: for x, y, w, h in opencv_faces:
\* face_locations.append((y, x + w, y + h, x))
RECURSIVE face_locations_of(_)
face_locations_of(opencv_faces) ==
    IF opencv_faces = << >> THEN << >>
    ELSE LET b == Head(opencv_faces)
         IN  << <<b[2], b[1] + b[3], b[2] + b[4], b[1]>> >>
             \o face_locations_of(Tail(opencv_faces))

CustomHogDetection ==
    /\ call.op = "_custom_hog_detection" /\ ~call.done
    /\ Returns(face_locations_of(call.arg.opencv_faces))
    /\ UNCHANGED Others

LbpDetection ==
    /\ call.op = "_lbp_detection" /\ ~call.done
    /\ Returns(face_locations_of(call.arg.opencv_faces))
    /\ UNCHANGED Others

(***************************************************************************)
(* utils/image_utils.py lines 6-36: resize_image.  Python computes the     *)
(* ratio and the new sides in binary64: a float is held here as its        *)
(* significand, MANT_DIG bits with the first one set, and the exponent of  *)
(* its last bit; division and multiplication round to nearest, ties to     *)
(* even, and int() truncates.                                              *)
(***************************************************************************)
MANT_DIG == 53

RECURSIVE Pow2(_)
Pow2(n) == IF n = 0 THEN 1 ELSE 2 * Pow2(n - 1)

\* the least j with a * 2^j >= b
RECURSIVE ShiftUp(_, _)
ShiftUp(a, b) == IF a >= b THEN 0 ELSE 1 + ShiftUp(2 * a, b)

\* the greatest k with b * 2^k <= a
RECURSIVE ShiftDown(_, _)
ShiftDown(a, b) == IF 2 * b > a THEN 0 ELSE 1 + ShiftDown(a, 2 * b)

\* the number q in m binary digits
Digits(q, m) == [i \in 1..m |-> (q \div Pow2(m - i)) % 2]

\* n binary digits of r / d, which is less than 2, and what is left; the
\* digits are taken twelve at a time (the sides of an image are below 2^12)
RECURSIVE QuotientBits(_, _, _)
QuotientBits(r, d, n) ==
    IF n = 0 THEN [bits |-> << >>, rem |-> r]
    ELSE LET m == IF n > 12 THEN 12 ELSE n
             scaled == r * Pow2(m - 1)
             rest == QuotientBits(2 * (scaled % d), d, n - m)
         IN  [bits |-> Digits(scaled \div d, m) \o rest.bits,
              rem |-> rest.rem]

\* the number `bits` plus one, in as many digits, and the carry out
Incremented(bits) ==
    IF \A i \in 1..Len(bits) : bits[i] = 1
    THEN [bits |-> [i \in 1..Len(bits) |-> 0], carry |-> 1]
    ELSE LET z == CHOOSE i \in 1..Len(bits) :
                      bits[i] = 0 /\ \A j \in (i + 1)..Len(bits) : bits[j] = 1
         IN  [bits |-> [i \in 1..Len(bits) |->
                           IF i < z THEN bits[i] ELSE IF i = z THEN 1 ELSE 0],
              carry |-> 0]

\* the next float up
RoundedUp(f) ==
    LET r == Incremented(f.bits)
    IN  IF r.carry = 1
        THEN [bits |-> <<1>> \o SubSeq(r.bits, 1, MANT_DIG - 1),
              exp |-> f.exp + 1]
        ELSE [bits |-> r.bits, exp |-> f.exp]

\* a / b for positive integers (line 25)
truediv(a, b) ==
    LET k == IF a >= b THEN ShiftDown(a, b) ELSE 0 - ShiftUp(a, b)
        n0 == IF a >= b THEN a ELSE a * Pow2(0 - k)
        d0 == IF a >= b THEN b * Pow2(k) ELSE b
        q == QuotientBits(n0, d0, MANT_DIG)
        f == [bits |-> q.bits, exp |-> k - (MANT_DIG - 1)]
    IN  IF q.rem > d0 \/ (q.rem = d0 /\ q.bits[MANT_DIG] = 1)
        THEN RoundedUp(f) ELSE f

RECURSIVE Binary(_)
Binary(n) == IF n = 0 THEN << >> ELSE Append(Binary(n \div 2), n % 2)

RECURSIVE ToNat(_)
ToNat(bits) ==
    IF bits = << >> THEN 0
    ELSE 2 * ToNat(SubSeq(bits, 1, Len(bits) - 1)) + bits[Len(bits)]

\* the binary digits of w times the number `bits`, plus carry, twelve
\* digits of `bits` at a time
RECURSIVE TimesBits(_, _, _)
TimesBits(w, bits, carry) ==
    IF bits = << >> THEN Binary(carry)
    ELSE LET n == Len(bits)
             m == IF n > 12 THEN 12 ELSE n
             t == w * ToNat(SubSeq(bits, n - m + 1, n)) + carry
         IN  TimesBits(w, SubSeq(bits, 1, n - m), t \div Pow2(m))
                 \o Digits(t % Pow2(m), m)

\* w * f for a positive integer w (lines 26-27)
float_mul(w, f) ==
    LET p == TimesBits(w, f.bits, 0)
        kept == SubSeq(p, 1, MANT_DIG)
        guard == Len(p) > MANT_DIG /\ p[MANT_DIG + 1] = 1
        sticky == \E i \in (MANT_DIG + 2)..Len(p) : p[i] = 1
        g == [bits |-> kept, exp |-> f.exp + (Len(p) - MANT_DIG)]
    IN  IF guard /\ (sticky \/ kept[MANT_DIG] = 1) THEN RoundedUp(g) ELSE g

\* int(f) for a float below 2^31 (lines 26-27)
int(f) ==
    IF MANT_DIG + f.exp <= 0 THEN 0
    ELSE ToNat(SubSeq(f.bits, 1, MANT_DIG + f.exp))

float_lt(f, g) ==
    \/ f.exp < g.exp
    \/ /\ f.exp = g.exp
       /\ \E i \in 1..MANT_DIG :
              /\ f.bits[i] < g.bits[i]
              /\ \A j \in 1..(i - 1) : f.bits[j] = g.bits[j]

\* line 25: min(a, b)
float_min(f, g) == IF float_lt(g, f) THEN g ELSE f

\* line 6: the default of max_size
max_size == 1024

Widths == {1, 600, 1024, 1025, 1122, 2048}

\* lines 6-36: the size of what resize_image returns; `same` when it
\* returns image_data itself (line 22), `raised` when Image.resize refuses
\* an empty size.
resize_image(width, height, max) ==
    IF width <= max /\ height <= max
    THEN [same |-> TRUE, raised |-> FALSE, width |-> width, height |-> height]
    ELSE LET ratio == float_min(truediv(max, width), truediv(max, height))
             new_width == int(float_mul(width, ratio))
             new_height == int(float_mul(height, ratio))
         IN  [same |-> FALSE, raised |-> new_width = 0 \/ new_height = 0,
              width |-> new_width, height |-> new_height]

\* cnn.py line 144: the default of batch_size
batch_size == 32
BatchSizes == {1, 8, batch_size}
MaxLabels == 4

\* cnn.py lines 229-248: of the n files of a class directory the generator
\* of subset 'validation' takes those from 0 to int(0.2 * n), the one of
\* subset 'training' those from int(0.2 * n) to int(1 * n).
validation_files(n) == int(float_mul(n, truediv(1, 5)))
training_files(n) == n - validation_files(n)

\* cnn.py lines 254-260: the steps fit is called with, for `labels`
\* persons whose directories hold the original and its variations.
fit_steps(labels, batch) ==
    LET images == [i \in 1..labels |-> 1 + Variations]
        train_samples ==
            Total([i \in 1..labels |-> training_files(images[i])])
        validation_samples ==
            Total([i \in 1..labels |-> validation_files(images[i])])
    IN  [samples |-> train_samples,
         steps_per_epoch |-> train_samples \div batch,
         validation_steps |-> validation_samples \div batch]

FitSteps ==
    /\ call.op = "fit" /\ ~call.done
    /\ Returns(fit_steps(call.arg.labels, call.arg.batch_size))
    /\ UNCHANGED Others

ResizeImage ==
    /\ call.op = "resize_image" /\ ~call.done
    /\ Returns(resize_image(call.arg.width, call.arg.height, max_size))
    /\ UNCHANGED Others

(***************************************************************************)
(* feature_extraction.py lines 192-272: the hand-engineered descriptor of  *)
(* a face crop.  The crop is the grey image after the resize of line 214,  *)
(* CropHeight by CropWidth pixels here, indexed from 0 as in the source.   *)
(***************************************************************************)
CropHeight == 3
CropWidth == 3
Pixels == {0, 200}

Rows == 0..(CropHeight - 1)
Columns == 0..(CropWidth - 1)
Crops == [Rows \X Columns -> Pixels]

bit(b) == IF b THEN 1 ELSE 0

\* lines 250-261: the code of the pixel at (i, j)
lbp_code(image, i, j) ==
    LET center == image[<<i, j>>]
    IN    128 * bit(image[<<i - 1, j - 1>>] >= center)
        + 64 * bit(image[<<i - 1, j>>] >= center)
        + 32 * bit(image[<<i - 1, j + 1>>] >= center)
        + 16 * bit(image[<<i, j + 1>>] >= center)
        + 8 * bit(image[<<i + 1, j + 1>>] >= center)
        + 4 * bit(image[<<i + 1, j>>] >= center)
        + 2 * bit(image[<<i + 1, j - 1>>] >= center)
        + bit(image[<<i, j - 1>>] >= center)

\* lines 245-263: lbp_image is zero where the loops do not go
lbp_image_of(image) ==
    [p \in DOMAIN image |->
        IF /\ p[1] \in 1..(CropHeight - 2)
           /\ p[2] \in 1..(CropWidth - 2)
        THEN lbp_code(image, p[1], p[2]) ELSE 0]

\* line 266: np.histogram(lbp_image.ravel(), bins=256, range=[0, 256]):
\* one bin for each code; the bins that are not empty, with their counts.
histogram(values) ==
    [c \in { values[p] : p \in DOMAIN values } |->
        Cardinality({ p \in DOMAIN values : values[p] = c })]

RECURSIVE SumOver(_, _)
SumOver(f, S) ==
    IF S = {} THEN 0
    ELSE LET c == CHOOSE x \in S : TRUE IN f[c] + SumOver(f, S \ {c})

\* line 270: hist.sum()
sum(hist) == SumOver(hist, DOMAIN hist)

\* lines 235-272: _extract_lbp_features.  The histogram it returns is
\* `counts` divided by `total` + 1e-7 (lines 269-270).
extract_lbp_features(image) ==
    LET hist == histogram(lbp_image_of(image))
    IN  [counts |-> hist, total |-> sum(hist)]

\* lines 217-218: the HOG features of the crop, one for the gradients
\* along the rows and one for those along the columns; they vanish where
\* the crop has no gradient.
hog_compute(image) ==
    << Cardinality({ p \in DOMAIN image :
           p[2] + 1 \in Columns /\ image[<<p[1], p[2] + 1>>] # image[p] }),
       Cardinality({ p \in DOMAIN image :
           p[1] + 1 \in Rows /\ image[<<p[1] + 1, p[2]>>] # image[p] }) >>

\* lines 224-229: the features put together; the norm is positive when
\* one of them is not zero, and then the vector is divided by it.
custom_feature_extraction(image) ==
    LET h == hog_compute(image)
        lbp_features == extract_lbp_features(image)
        positive == \/ \E i \in 1..Len(h) : h[i] # 0
                    \/ \E c \in DOMAIN lbp_features.counts :
                           lbp_features.counts[c] # 0
    IN  [hog |-> h, lbp |-> lbp_features, normalized |-> positive]

ExtractLbpFeatures ==
    /\ call.op = "_extract_lbp_features" /\ ~call.done
    /\ Returns(extract_lbp_features(call.arg.image))
    /\ UNCHANGED Others

CustomFeatureExtraction ==
    /\ call.op = "_custom_feature_extraction" /\ ~call.done
    /\ Returns(custom_feature_extraction(call.arg.image))
    /\ UNCHANGED Others

InitFunctions ==
    /\ store = [f \in FileNames |-> NoFile]
    /\ heap = [a \in Addresses |-> << >>]
    /\ known_face_encodings = 1
    /\ known_face_names = 2
    /\ got_first_request = FALSE
    /\ threaded = FALSE
    /\ pc = [t \in Threads |-> "idle"]
    /\ loc = [t \in Threads |-> NoLocals]
    /\ nCalls = 0
    /\ entry = NoEntry
    /\ rq = NoRequest
    /\ cnn = NoClassifier
    /\ disk = NoDisk
    /\ tr = NoTraining
    /\ uploads = NoUploads
    /\ rec = [t \in Threads |-> NoRecognize]
    /\ \/ \E faces \in Detections :
              \E op \in {"_custom_hog_detection", "_lbp_detection"} :
                  call = Pending(op, [opencv_faces |-> faces])
       \/ \E width \in Widths, height \in Widths :
              call = Pending("resize_image",
                             [width |-> width, height |-> height])
       \/ \E image \in Crops :
              \E op \in {"_extract_lbp_features",
                         "_custom_feature_extraction"} :
                  call = Pending(op, [image |-> image])
       \/ \E labels \in 2..MaxLabels, batch \in BatchSizes :
              call = Pending("fit", [labels |-> labels, batch_size |-> batch])

NextFunctions ==
    \/ CustomHogDetection
    \/ LbpDetection
    \/ ResizeImage
    \/ ExtractLbpFeatures
    \/ CustomFeatureExtraction
    \/ FitSteps

SpecFunctions == InitFunctions /\ [][NextFunctions]_vars

\* C26: the cascade detectors return one box for each native box, in the
\* detector's order, (x, y, w, h) as (y, x + w, y + h, x), and each
\* returned (top, right, bottom, left) has 0 <= top < bottom <= height and
\* 0 <= left < right <= width.
C26_CascadeBoxesConverted ==
    (Applied("_custom_hog_detection") \/ Applied("_lbp_detection")) =>
        LET native == call.arg.opencv_faces
        IN  /\ Len(call.out) = Len(native)
            /\ \A i \in 1..Len(native) :
                   LET x == native[i][1]
                       y == native[i][2]
                       w == native[i][3]
                       h == native[i][4]
                       top == call.out[i][1]
                       right == call.out[i][2]
                       bottom == call.out[i][3]
                       left == call.out[i][4]
                   IN  /\ top = y /\ right = x + w
                       /\ bottom = y + h /\ left = x
                       /\ 0 <= top /\ top < bottom /\ bottom <= ImageHeight
                       /\ 0 <= left /\ left < right /\ right <= ImageWidth

\* The LBP cascade gave two different boxes and two were returned.
C26_Witness ==
    /\ Applied("_lbp_detection")
    /\ Len(call.arg.opencv_faces) = 2
    /\ call.arg.opencv_faces[1] # call.arg.opencv_faces[2]
    /\ call.arg.opencv_faces[1][3] # call.arg.opencv_faces[1][4]
    /\ Len(call.out) = 2

\* C27: resize_image returns its input when neither side exceeds
\* max_size; otherwise the longer side of what it returns is exactly
\* max_size and the other side is the input's scaled by the same ratio, to
\* the pixel.
C27_LongestSideIsMaxSize ==
    Applied("resize_image") =>
        LET width == call.arg.width
            height == call.arg.height
            out == call.out
        IN  IF width <= max_size /\ height <= max_size
            THEN out.same /\ out.width = width /\ out.height = height
            ELSE /\ ~out.raised
                 /\ IF width >= height
                    THEN /\ out.width = max_size
                         /\ out.height * width <= height * max_size
                         /\ height * max_size < (out.height + 1) * width
                    ELSE /\ out.height = max_size
                         /\ out.width * height <= width * max_size
                         /\ width * max_size < (out.width + 1) * height

\* The pixels of a crop are all zero.
Degenerate(image) == \A p \in DOMAIN image : image[p] = 0

ZeroVector(d) ==
    /\ ~d.normalized
    /\ \A i \in 1..Len(d.hog) : d.hog[i] = 0
    /\ \A c \in DOMAIN d.lbp.counts : d.lbp.counts[c] = 0

\* C28: the descriptor of a crop is the zero vector exactly when all the
\* pixels of the crop are zero, and has norm 1 for every other crop.
C28_ZeroOnlyForDegenerateCrop ==
    Applied("_custom_feature_extraction") =>
        /\ ZeroVector(call.out) <=> Degenerate(call.arg.image)
        /\ ~Degenerate(call.arg.image) => call.out.normalized

\* C29: before normalization the counts of the LBP histogram of an H x W
\* crop sum to (H-2)*(W-2): only the pixels off the border are counted.
C29_OnlyInteriorPixelsCounted ==
    Applied("_extract_lbp_features") =>
        call.out.total = (CropHeight - 2) * (CropWidth - 2)

(***************************************************************************)
(* A reload beside an add.  register_face writes the upload into the store *)
(* at line 61 and looks for a face in it at lines 64-65; a reload on       *)
(* another thread lists and reads the store meanwhile, and what it reads   *)
(* at lines 29-33 it appends to the registry at lines 36-37.               *)
(***************************************************************************)
\* Thread u has written its upload and has not yet looked at it, and the
\* only other call taken so far is the delete of thread t: the image under
\* u's file name is the one u wrote.
UnfinishedAddBeside(u, t) ==
    /\ t # u
    /\ nCalls = 2
    /\ loc[u].op = "register_face"
    /\ pc[u] = "reg64"
    /\ loc[t].op = "delete_face"

\* C30: a reload never takes for the registry an image whose add has not
\* succeeded: while the add that wrote a file has not returned, no reload
\* builds an identity from that file.
C30_ReloadSkipsUnfinishedAdd ==
    [][\A t, u \in Threads :
          (/\ UnfinishedAddBeside(u, t)
           /\ pc[t] = "load22"
           /\ loc[t].i <= Len(loc[t].files)
           /\ loc[t].files[loc[t].i] = loc[u].fn)
              => pc'[t] # "load36"
      ]_vars

(***************************************************************************)
(* C31.  When recognize_faces uses the classifier and the classifier is    *)
(* not trained once its training has been tried, no face is handed to      *)
(* face_distance with the placeholder of line 66, and no face is reported  *)
(* as Inconnu with confidence 0, which is what an unknown face gets.       *)
(***************************************************************************)
C31_UntrainedIsNotUnknown ==
    (rq.use_cnn /\ rq.at \in {"match78", "done"} /\ ~cnn.is_trained)
        => /\ "placeholder" \notin rq.compared
           /\ \A i \in 1..Len(rq.results) :
                  rq.results[i] # [name |-> "Inconnu", confidence |-> 0]

(***************************************************************************)
(* C32.  In every response of recognize_faces with status 200 there are    *)
(* as many results as faces detected (faces_detected of line 140 is the    *)
(* length of face_locations), and the i-th result has id i-1 and the box   *)
(* of the i-th detected face: no detected face is left out.                *)
(***************************************************************************)
C32_OneResultPerDetectedFace ==
    (rq.at = "done" /\ rq.status = 200)
        => /\ Len(rq.results) = Len(rq.face_locations)
           /\ Len(rq.located) = Len(rq.face_locations)
           /\ \A i \in 1..Len(rq.located) :
                  rq.located[i] = [id |-> i - 1,
                                   location |-> rq.face_locations[i]]

\* A response with two faces, found by the second detection, matched with
\* the known descriptors.
C32_Witness ==
    /\ rq.at = "done" /\ rq.status = 200
    /\ Len(rq.detections) = 2
    /\ Len(rq.face_locations) = 2
    /\ Len(rq.located) = 2
    /\ rq.located[2].location = << 0, 2, 1, 1 >>
    /\ "embedding" \in rq.compared

(***************************************************************************)
(* C33.  When train returns True, the directory of every label of the      *)
(* label list holds exactly 11 training images (the original and 10        *)
(* variations), made from the image the store has under that label, and    *)
(* train_data holds no directory and no image of anything but the labels.  *)
(***************************************************************************)
C33_ElevenImagesPerLabel ==
    (tr.at = "ret" /\ tr.result)
        => /\ disk.train_dir = Range(cnn.face_labels)
           /\ \A r \in tr.images : r.dir \in Range(cnn.face_labels)
           /\ \A f \in { g \in FileNames : tr.folder[g] # NoFile } :
                  person_name(f) \in Range(cnn.face_labels)
                      => [dir |-> person_name(f), source |-> tr.folder[f],
                          count |-> 11] \in tr.images

(***************************************************************************)
(* C34.  Whenever a recognize request looks at the two lists it obtained   *)
(* from get_known_faces, a reload running or not, the list of descriptors  *)
(* and the list of labels have the same length, and the index of the       *)
(* nearest descriptor is an index of the list of labels.                   *)
(***************************************************************************)
C34_ListsOfEqualLength ==
    \A r \in Threads :
        /\ pc[r] \in MatchPcs
               => Len(heap[loc[r].encs]) = Len(heap[loc[r].names])
        /\ pc[r] = "match104" => loc[r].best <= Len(heap[loc[r].names])

(***************************************************************************)
(* C35.  With one request at a time and the registry loaded from the store *)
(* at startup, when a register_face or delete_face call returns, whatever  *)
(* it answers, the labels of the registry are the labels of the images of  *)
(* the store in which a face is detected.                                  *)
(***************************************************************************)
C35_RegistryFollowsStore ==
    \A t \in Threads :
        (/\ pc[t] = "return"
         /\ loc[t].op \in {"register_face", "delete_face"}
         /\ got_first_request)
            => Range(CurrentNames) = DetectedLabels

(***************************************************************************)
(* The files of recognize_faces.  Each request saves its upload in the     *)
(* upload directory under the name the client gave (lines 29-32), loads    *)
(* the image from that file (line 35) and, when faces were found and       *)
(* save_result is set, writes the annotated image beside it (lines         *)
(* 131-135).  Requests run on threads of their own; rec[t] holds the       *)
(* locals of the request of thread t.  Lines 37-129 are the steps of       *)
(* SpecPipeline; here they are one step that finds faces in the image or   *)
(* not and draws on a copy of it.                                          *)
(***************************************************************************)
Mine == <<store, heap, known_face_encodings, known_face_names,
          got_first_request, threaded, pc, loc, nCalls, entry,
          rq, cnn, disk, tr, call>>

\* The image annotated: cv2.rectangle and cv2.putText on image_cv.
annotated(image) == "result of " \o image

SetRec(t, r) == rec' = [rec EXCEPT ![t] = r]

\* lines 24-31: no file, or the path of the upload.
Recognize24(t) ==
    /\ rec[t].at = "idle"
    /\ \/ SetRec(t, [NoRecognize EXCEPT !.at = "ret", !.status = 400])
       \/ \E filename \in SubmittedNames, content \in {"f1", "f2"},
             save_result \in BOOLEAN :
              SetRec(t, [NoRecognize EXCEPT !.at = "save32",
                                            !.filename = secure_filename(filename),
                                            !.content = content,
                                            !.save_result = save_result])
    /\ UNCHANGED <<Mine, uploads>>

\* line 32: file.save(filepath) opens the file for writing, which empties
\* the file that is there ...
Save32(t) ==
    /\ rec[t].at = "save32"
    /\ uploads' = [uploads EXCEPT ![rec[t].filename] = "partial"]
    /\ SetRec(t, [rec[t] EXCEPT !.at = "write32"])
    /\ UNCHANGED Mine

\* ... and copies the upload into it.
Write32(t) ==
    /\ rec[t].at = "write32"
    /\ uploads' = [uploads EXCEPT ![rec[t].filename] = rec[t].content]
    /\ SetRec(t, [rec[t] EXCEPT !.at = "load35"])
    /\ UNCHANGED Mine

\* line 35: face_recognition.load_image_file(filepath) reads what the file
\* holds now; it raises on a half-written file (lines 151-153).
Load35(t) ==
    /\ rec[t].at = "load35"
    /\ IF Readable(uploads[rec[t].filename])
       THEN SetRec(t, [rec[t] EXCEPT !.at = "faces50",
                                     !.image = uploads[rec[t].filename]])
       ELSE SetRec(t, [rec[t] EXCEPT !.at = "ret", !.status = 500])
    /\ UNCHANGED <<Mine, uploads>>

\* lines 37-129: faces are found in `image` or not, and results made; an
\* exception ends the request (lines 151-153).
Faces50(t) ==
    /\ rec[t].at = "faces50"
    /\ \/ \E faces \in BOOLEAN :
              SetRec(t, [rec[t] EXCEPT !.at = "imwrite132", !.faces = faces])
       \/ SetRec(t, [rec[t] EXCEPT !.at = "ret", !.status = 500])
    /\ UNCHANGED <<Mine, uploads>>

\* lines 132-149: the annotated image is written under result_<filename>
\* and named in the response.
Imwrite132(t) ==
    /\ rec[t].at = "imwrite132"
    /\ IF rec[t].save_result /\ rec[t].faces
       THEN /\ uploads' = [uploads EXCEPT ![result_name(rec[t].filename)] =
                                              annotated(rec[t].image)]
            /\ SetRec(t, [rec[t] EXCEPT !.at = "ret", !.status = 200,
                             !.output_filename = result_name(rec[t].filename)])
       ELSE /\ SetRec(t, [rec[t] EXCEPT !.at = "ret", !.status = 200])
            /\ UNCHANGED uploads
    /\ UNCHANGED Mine

\* The response is returned; the files stay.
RecognizeDone(t) ==
    /\ rec[t].at = "ret"
    /\ SetRec(t, NoRecognize)
    /\ UNCHANGED <<Mine, uploads>>

NextUploads ==
    \E t \in Threads :
        \/ Recognize24(t)
        \/ Save32(t)
        \/ Write32(t)
        \/ Load35(t)
        \/ Faces50(t)
        \/ Imwrite132(t)
        \/ RecognizeDone(t)

SpecUploads == Init /\ [][NextUploads]_vars

(***************************************************************************)
(* C36.  Of two recognize requests running at once, each loads the image   *)
(* it uploaded, and the result image its response names is the annotation  *)
(* of its own upload, also when both uploads have the same file name.      *)
(***************************************************************************)
C36_EachRequestItsOwnImage ==
    \A t \in Threads :
        /\ rec[t].at \in {"faces50", "imwrite132"}
               => rec[t].image = rec[t].content
        /\ (rec[t].at = "ret" /\ rec[t].output_filename # "")
               => uploads[rec[t].output_filename] = annotated(rec[t].content)

(***************************************************************************)
(* C37.  No step of recognize_faces, whatever its arguments and however    *)
(* it ends, the training it starts included, changes the store of known    *)
(* faces, the two globals of the registry or the lists they refer to.      *)
(***************************************************************************)
C37_RecognizeLeavesRegistryAndStore ==
    [][(rq.at # "idle" \/ rq'.at # "idle")
          => /\ store' = store
             /\ known_face_encodings' = known_face_encodings
             /\ known_face_names' = known_face_names
             /\ heap'[known_face_encodings] = heap[known_face_encodings]
             /\ heap'[known_face_names] = heap[known_face_names]
      ]_vars

\* The training a request started on a store of two images has returned
\* True, with a registry of two identities.
C37_Witness ==
    /\ rq.at = "train47"
    /\ tr.at = "ret" /\ tr.result /\ tr.caller = "recognize_faces"
    /\ disk.train_dir = {"alice", "a_b"}
    /\ Len(heap[known_face_names]) = 2
    /\ \A f \in FileNames : store[f] # NoFile

(***************************************************************************)
(* C38.  For every number of labels from 2 on, each with its 11 training   *)
(* images split 80/20, and every batch size up to the default 32, fit is   *)
(* given at least one step per epoch: the training samples divided by      *)
(* batch_size, rounded down, are 1 or more.                                *)
(***************************************************************************)
C38_AtLeastOneStepPerEpoch ==
    Applied("fit") => call.out.steps_per_epoch >= 1

=============================================================================
